---- MODULE Spec2Model ----
(***************************************************************************)
(* Query lifecycle engine of the query-tracking backend:                   *)
(* queryService.js (createQuery, updateQuery, assignQuery), the            *)
(* classification gateway mlService.js, the connector-side dedup lookup    *)
(* (facebookIntegration.js processMessage) and the relational store with   *)
(* its unique indexes (migration.sql).                                     *)
(*                                                                         *)
(* Every `await` of the JavaScript code is one atomic step of a caller;    *)
(* the synchronous code that follows an await belongs to the same step.    *)
(* Callers (HTTP requests, connector callbacks) interleave at the awaits.  *)
(* Time is the epoch in milliseconds; Date.setHours(getHours() + h) is     *)
(* modelled as adding h hours (no daylight-saving change in the window).   *)
(***************************************************************************)
EXTENDS Integers, Sequences, FiniteSets, Bags, TLC

VARIABLES
    now,          \* the wall clock (ms), read by new Date() and by the store
    queries,      \* table "queries": sequence of rows, row i has id i
    assignments,  \* table "assignments": bag of rows
    responses,    \* table "responses": bag of rows
    channels,     \* table "channels": per channel id its type, flag, configuration
    integrations, \* IntegrationManager.integrations: channel id -> instance (0: none)
    instances,    \* the connector objects constructed so far, instance i has id i
    pc,           \* per caller: the await it is suspended at
    op,           \* per caller: the operation in progress
    req,          \* per caller: the arguments of the operation
    loc,          \* per caller: the local variables of the operation
    result        \* per caller: what the operation returned or threw

vars == <<now, queries, assignments, responses, channels, integrations,
         instances, pc, op, req, loc, result>>

\* the state of the connector supervisor
supervisorVars == <<channels, integrations, instances>>

-----------------------------------------------------------------------------
(* Bounds of the model *)

MaxTime == 1
MaxQueries == 2
MaxAssignments == 2
MaxResponses == 2
MaxInstances == 2

Procs == {"p1", "p2"}

-----------------------------------------------------------------------------
(* Values *)

Undefined == "undefined"

Priorities == {"CRITICAL", "HIGH", "MEDIUM", "LOW"}

Statuses == {"NEW", "ASSIGNED", "IN_PROGRESS", "RESOLVED", "CLOSED"}

Sentiments == {"POSITIVE", "NEUTRAL", "NEGATIVE"}

\* rows of table "channels" (read-only to the lifecycle manager)
ChannelIds == {"c1", "c2"}

\* rows of table "categories"
Categories == {[id |-> "k1", name |-> "question"]}

\* rows of table "users"
UserIds == {"u1", "u2"}

MsPerHour == 3600000

\* a nullable timestamp column: <<>> is NULL, <<t>> is the time t
NullTime == <<>>

-----------------------------------------------------------------------------
(* Strings, as sequences of characters *)

UpperToLower ==
    "A" :> "a" @@ "B" :> "b" @@ "C" :> "c" @@ "D" :> "d" @@ "E" :> "e" @@
    "F" :> "f" @@ "G" :> "g" @@ "H" :> "h" @@ "I" :> "i" @@ "J" :> "j" @@
    "K" :> "k" @@ "L" :> "l" @@ "M" :> "m" @@ "N" :> "n" @@ "O" :> "o" @@
    "P" :> "p" @@ "Q" :> "q" @@ "R" :> "r" @@ "S" :> "s" @@ "T" :> "t" @@
    "U" :> "u" @@ "V" :> "v" @@ "W" :> "w" @@ "X" :> "x" @@ "Y" :> "y" @@
    "Z" :> "z"

toLowerCase(s) ==
    [i \in DOMAIN s |-> IF s[i] \in DOMAIN UpperToLower THEN UpperToLower[s[i]] ELSE s[i]]

includes(s, k) ==
    \E i \in 0..(Len(s) - Len(k)) : SubSeq(s, i + 1, i + Len(k)) = k

urgentKeywords ==
    { <<"u","r","g","e","n","t">>,
      <<"c","r","i","t","i","c","a","l">>,
      <<"e","m","e","r","g","e","n","c","y">>,
      <<"a","s","a","p">>,
      <<"i","m","m","e","d","i","a","t","e","l","y">>,
      <<"b","r","o","k","e","n">>,
      <<"d","o","w","n">> }

\* sample contents: "", "ok", "ASAP", "Down!"
ContentEmpty == <<>>
ContentPlain == <<"o","k">>
ContentAsap == <<"A","S","A","P">>
ContentDown == <<"D","o","w","n","!">>

-----------------------------------------------------------------------------
(* Priority and SLA engine *)

slaTimes == [CRITICAL |-> 1, HIGH |-> 4, MEDIUM |-> 24, LOW |-> 72]

\* mutant: the deadline ignores the priority
calculateSlaDueAtFlat(priority, t) == t + slaTimes.MEDIUM * MsPerHour

\* calculateSlaDueAt(priority), with t the value of new Date()
calculateSlaDueAt(priority, t) ==
    LET hours == IF priority \in DOMAIN slaTimes THEN slaTimes[priority]
                 ELSE slaTimes.MEDIUM
    IN  t + hours * MsPerHour

detectPriority(content, isVip, sentiment) ==
    IF isVip THEN "HIGH"
    ELSE IF sentiment = "NEGATIVE" THEN "HIGH"
    ELSE IF \E keyword \in urgentKeywords : includes(toLowerCase(content), keyword)
         THEN "HIGH"
    ELSE "MEDIUM"

-----------------------------------------------------------------------------
(* Classification gateway *)

\* mutant: the fallback flags the message as a negative, high-priority one
getDefaultAnalysisAlarmed ==
    [category |-> "question", sentiment |-> "NEGATIVE", priority |-> "HIGH",
     is_urgent |-> TRUE, is_vip |-> FALSE]

getDefaultAnalysis ==
    [category |-> "question", sentiment |-> "NEUTRAL", priority |-> "MEDIUM",
     is_urgent |-> FALSE, is_vip |-> FALSE]

\* mlAnalysis = null (classification skipped)
NoAnalysis ==
    [category |-> Undefined, sentiment |-> Undefined, priority |-> Undefined,
     is_urgent |-> FALSE, is_vip |-> FALSE]

\* what the HTTP call to the classifier can end with: a timeout, a non-2xx
\* status or a refused connection ("error"), an empty body ("empty"), or a body
MLFailures ==
    {[status |-> s, data |-> NoAnalysis] : s \in {"error", "empty"}}

MLBodies(cats, sents, prios) ==
    {[status |-> "ok",
      data |-> [category |-> c, sentiment |-> s, priority |-> pr,
                is_urgent |-> u, is_vip |-> v]] :
        c \in cats, s \in sents, pr \in prios, u \in BOOLEAN, v \in BOOLEAN}

\* MLService.analyzeQuery: the body, or the default analysis on any failure
analyzeQuery(response) ==
    IF response.status = "ok" THEN response.data ELSE getDefaultAnalysis

-----------------------------------------------------------------------------
(* The store *)

\* mutant: the unique index on external_id is missing
ExternalIdNotIndexed(externalId) == FALSE

\* unique index queries_external_id_key: NULLs never collide
ExternalIdTaken(externalId) ==
    /\ externalId # Undefined
    /\ \E i \in DOMAIN queries : queries[i].externalId = externalId

\* prisma.query.findUnique({ where: { externalId } })
findByExternalId(externalId) ==
    {i \in DOMAIN queries : queries[i].externalId = externalId}

\* prisma.category.findFirst({ where: { name } })
findCategoryByName(name) == {c \in Categories : c.name = name}

\* prisma.category.findUnique({ where: { id } })
findCategoryById(id) == {c \in Categories : c.id = id}

-----------------------------------------------------------------------------
(* Callers *)

\* a read of the clock (new Date() in the service, CURRENT_TIMESTAMP in the
\* store): time has passed since the last read, or not
ReadClock(t) ==
    /\ t \in {now, now + 1}
    /\ t <= MaxTime
    /\ now' = t

NoResult == [status |-> "none", error |-> "", id |-> 0]
Returned(id) == [status |-> "returned", error |-> "", id |-> id]
Thrown(e) == [status |-> "thrown", error |-> e, id |-> 0]

NoReq == [none |-> TRUE]
NoLoc == [none |-> TRUE]

\* the operations of the supervisor that loop over channels
BatchOps == {"startAllActiveChannels", "stopAll"}

\* the call returns or throws to its caller: the request handler, the loop
\* of startAllActiveChannels / stopAll (called as such or by
\* gracefulShutdown) around startChannel / stopChannel, or the loop of a poll
\* cycle around processMessage
Finish(p, r) ==
    /\ pc' = [pc EXCEPT ![p] = IF op[p] \in BatchOps \cup {"gracefulShutdown"}
                               THEN "batch_next"
                               ELSE IF op[p] = "pollMessages" THEN "poll_next"
                               ELSE "done"]
    /\ result' = [result EXCEPT ![p] = r]

Goto(p, label) ==
    /\ pc' = [pc EXCEPT ![p] = label]
    /\ UNCHANGED result

\* arguments of createQuery
QueryData(chans, cats, contents, sents, prios, vips, exts, skips) ==
    {[channelId |-> ch, categoryId |-> k, content |-> c, sentiment |-> s,
      priority |-> pr, isVip |-> v, externalId |-> e, skipMLAnalysis |-> sk,
      status |-> Undefined] :
        ch \in chans, k \in cats, c \in contents, s \in sents, pr \in prios,
        v \in vips, e \in exts, sk \in skips}

\* queryData that also carries a status, a field createQuery does not destructure
SuppliedStatus(requests, stats) ==
    {[d EXCEPT !.status = st] : d \in requests, st \in stats}

-----------------------------------------------------------------------------
(* createQuery *)

\* callers between the call of createQuery and its insert
Creating ==
    {p \in Procs : pc[p] \in {"pm_lookup", "cq_findChannel", "cq_analyze",
                               "cq_category", "cq_create"}}

\* the model stops ingesting when the rows stored and under way reach MaxQueries
RoomForQuery == Len(queries) + Cardinality(Creating) < MaxQueries

\* a caller invokes queryService.createQuery(queryData)
CallCreateQuery(p, inputs) ==
    /\ pc[p] = "idle"
    /\ RoomForQuery
    /\ \E d \in inputs :
        /\ op' = [op EXCEPT ![p] = "createQuery"]
        /\ req' = [req EXCEPT ![p] = d]
    /\ Goto(p, "cq_findChannel")
    /\ UNCHANGED <<now, queries, assignments, loc>>
    /\ UNCHANGED <<responses, supervisorVars>>

\* mutant: the channel is not looked up
CreateFindChannelUnchecked(p) ==
    /\ pc[p] = "cq_findChannel"
    /\ Goto(p, "cq_analyze")
    /\ UNCHANGED <<now, queries, assignments, op, req, loc>>
    /\ UNCHANGED <<responses, supervisorVars>>

\* await prisma.channel.findUnique; throws when the channel is missing
CreateFindChannel(p) ==
    /\ pc[p] = "cq_findChannel"
    /\ IF req[p].channelId \in ChannelIds
       THEN Goto(p, "cq_analyze")
       ELSE Finish(p, Thrown("ValidationError: Channel not found"))
    /\ UNCHANGED <<now, queries, assignments, op, req, loc>>
    /\ UNCHANGED <<responses, supervisorVars>>

\* lines 261-273: explicit value, else classifier value, else heuristic
finalSentiment(d, ml) ==
    IF d.sentiment # Undefined THEN d.sentiment
    ELSE IF ml.sentiment # Undefined THEN ml.sentiment
    ELSE "NEUTRAL"

finalIsVip(d, ml) ==
    IF d.isVip # Undefined THEN d.isVip = "true" ELSE ml.is_vip

\* mutant: the classifier's priority overrides the caller's
finalPriorityClassifierFirst(d, ml) ==
    IF ml.priority # Undefined THEN ml.priority
    ELSE IF d.priority # Undefined THEN d.priority
    ELSE detectPriority(d.content, finalIsVip(d, ml), finalSentiment(d, ml))

finalPriority(d, ml) ==
    IF d.priority # Undefined THEN d.priority
    ELSE IF ml.priority # Undefined THEN ml.priority
    ELSE detectPriority(d.content, finalIsVip(d, ml), finalSentiment(d, ml))

\* mlAnalysis is requested unless skipped or the content is empty
mlRequested(d) == ~d.skipMLAnalysis /\ d.content # <<>>

\* the local variables of createQuery after lines 240-273
resolveFields(d, response) ==
    LET ml == IF mlRequested(d) THEN analyzeQuery(response) ELSE NoAnalysis
    IN  [mlCalled |-> mlRequested(d),
         mlFailed |-> mlRequested(d) /\ response.status # "ok",
         mlCategory |-> ml.category,
         mlUrgent |-> ml.is_urgent,
         sentiment |-> finalSentiment(d, ml),
         isVip |-> finalIsVip(d, ml),
         priority |-> finalPriority(d, ml),
         categoryId |-> d.categoryId,
         isUrgent |-> FALSE,
         slaDueAt |-> 0]

\* await MLService.analyzeQuery (unless skipped or the content is empty), then
\* the resolution of the final fields
CreateAnalyze(p, outcomes) ==
    /\ pc[p] = "cq_analyze"
    /\ \E r \in outcomes :
        /\ mlRequested(req[p]) \/ r.status = "error"
        /\ loc' = [loc EXCEPT ![p] = resolveFields(req[p], r)]
    /\ Goto(p, "cq_category")
    /\ UNCHANGED <<now, queries, assignments, op, req>>
    /\ UNCHANGED <<responses, supervisorVars>>

\* lines 275-289: the explicit category, else the classifier's category by name
finalCategoryId(l) ==
    LET byName == IF l.categoryId = Undefined /\ l.mlCategory # Undefined
                  THEN findCategoryByName(l.mlCategory) ELSE {}
    IN  IF byName # {} THEN (CHOOSE c \in byName : TRUE).id ELSE l.categoryId

\* line 301
isUrgentFlag(l) ==
    l.mlUrgent \/ l.priority = "HIGH" \/ l.priority = "CRITICAL"

\* the local variables of createQuery after lines 275-303, at time t
withDeadline(l, t) ==
    [l EXCEPT !.categoryId = finalCategoryId(l),
              !.isUrgent = isUrgentFlag(l),
              !.slaDueAt = calculateSlaDueAt(l.priority, t)]

\* lines 275-303: the category lookups, then isUrgent and the SLA deadline
CreateCategory(p) ==
    /\ pc[p] = "cq_category"
    /\ LET catId == finalCategoryId(loc[p])
       IN  IF catId # Undefined /\ findCategoryById(catId) = {}
           THEN /\ Finish(p, Thrown("ValidationError: Category not found"))
                /\ UNCHANGED <<now, loc>>
           ELSE /\ \E t \in 0..MaxTime :
                    /\ ReadClock(t)
                    /\ loc' = [loc EXCEPT ![p] = withDeadline(loc[p], t)]
                /\ Goto(p, "cq_create")
    /\ UNCHANGED <<queries, assignments, op, req>>
    /\ UNCHANGED <<responses, supervisorVars>>

\* mutant: the insert passes the caller's status on to the store
NewQueryWithStatus(d, l, id, t) ==
    [id |-> id, channelId |-> d.channelId, categoryId |-> l.categoryId,
     content |-> d.content, sentiment |-> l.sentiment, priority |-> l.priority,
     status |-> IF d.status # Undefined THEN d.status ELSE "NEW",
     isVip |-> l.isVip, isUrgent |-> l.isUrgent,
     externalId |-> d.externalId, receivedAt |-> t, assignedAt |-> NullTime,
     slaDueAt |-> l.slaDueAt]

\* the row prisma.query.create inserts; status and received_at are column defaults
NewQuery(d, l, id, t) ==
    [id |-> id, channelId |-> d.channelId, categoryId |-> l.categoryId,
     content |-> d.content, sentiment |-> l.sentiment, priority |-> l.priority,
     status |-> "NEW", isVip |-> l.isVip, isUrgent |-> l.isUrgent,
     externalId |-> d.externalId, receivedAt |-> t, assignedAt |-> NullTime,
     slaDueAt |-> l.slaDueAt]

\* await prisma.query.create; the unique index on external_id rejects a duplicate
CreateInsert(p) ==
    /\ pc[p] = "cq_create"
    /\ IF ExternalIdTaken(req[p].externalId)
       THEN /\ Finish(p, Thrown("P2002: Unique constraint failed on external_id"))
            /\ UNCHANGED <<now, queries>>
       ELSE /\ \E t \in 0..MaxTime :
                    /\ ReadClock(t)
                    /\ queries' = Append(queries,
                              NewQuery(req[p], loc[p], Len(queries) + 1, t))
            /\ Finish(p, Returned(Len(queries) + 1))
    /\ UNCHANGED <<assignments, op, req, loc>>
    /\ UNCHANGED <<responses, supervisorVars>>

-----------------------------------------------------------------------------
(* Connector-side ingestion: FacebookIntegration.processMessage *)

\* a connector's poll hands one retrieved message to processMessage
CallProcessMessage(p, inputs) ==
    /\ pc[p] = "idle"
    /\ RoomForQuery
    /\ \E d \in inputs :
        /\ d.externalId # Undefined
        /\ d.channelId \in ChannelIds
        /\ op' = [op EXCEPT ![p] = "processMessage"]
        /\ req' = [req EXCEPT ![p] = d]
    /\ Goto(p, "pm_lookup")
    /\ UNCHANGED <<now, queries, assignments, loc>>
    /\ UNCHANGED <<responses, supervisorVars>>

\* await prisma.query.findUnique({ where: { externalId } }): an event already
\* ingested is dropped, a new one goes to createQuery
ProcessLookup(p) ==
    /\ pc[p] = "pm_lookup"
    /\ IF findByExternalId(req[p].externalId) # {}
       THEN Finish(p, Returned(0))
       ELSE Goto(p, "cq_findChannel")
    /\ UNCHANGED <<now, queries, assignments, op, req, loc>>
    /\ UNCHANGED <<responses, supervisorVars>>

\* the webhook route hands an event to processWebhookEvent, which awaits
\* processWebhookMessage / processWebhookComment: createQuery is called with
\* the event's id as external key, with no lookup before it, and what it
\* throws is rethrown to the route
CallProcessWebhook(p, inputs) ==
    /\ pc[p] = "idle"
    /\ RoomForQuery
    /\ \E d \in inputs :
        /\ d.externalId # Undefined
        /\ d.channelId \in ChannelIds
        /\ op' = [op EXCEPT ![p] = "processWebhookMessage"]
        /\ req' = [req EXCEPT ![p] = d]
    /\ Goto(p, "cq_findChannel")
    /\ UNCHANGED <<now, queries, assignments, loc>>
    /\ UNCHANGED <<responses, supervisorVars>>

\* the loop state of a poll cycle: the message under processing as the
\* arguments of createQuery, the ids retrieved, the rest of them, and those
\* handed to processMessage so far
PollItem(channelId, externalId, all, todo, attempted) ==
    [channelId |-> channelId, categoryId |-> Undefined, content |-> ContentPlain,
     sentiment |-> Undefined, priority |-> Undefined, isVip |-> Undefined,
     externalId |-> externalId, skipMLAnalysis |-> FALSE, status |-> Undefined,
     all |-> all, todo |-> todo, attempted |-> attempted]

\* the poll timer fires pollPageMessages, which retrieves a batch of messages
CallPoll(p, channelId, batches) ==
    /\ pc[p] = "idle"
    /\ op' = [op EXCEPT ![p] = "pollMessages"]
    /\ \E all \in batches :
            req' = [req EXCEPT ![p] = PollItem(channelId, Undefined, all, all, <<>>)]
    /\ pc' = [pc EXCEPT ![p] = "poll_next"]
    /\ UNCHANGED <<now, queries, assignments, loc, result>>
    /\ UNCHANGED <<responses, supervisorVars>>

\* pollPageMessages lines 83-104: the await of processMessage is not wrapped
\* inside the loops, so what it throws leaves them for the outer catch
abortsPoll(r) == r.status = "thrown"

\* this.lastPollTime = new Date() at the end of a pass: Facebook's pollMessages
\* (line 76) reaches it after pollPageMessages caught the error; Slack's
\* pollMessages (line 118), Email's pollEmails (line 202) and Instagram's
\* pollComments (line 97) have it inside the try block the error leaves
stampsPoll(type, aborted) == type = "FACEBOOK" \/ ~aborted

\* one turn of the for loop: processMessage is called for the next message,
\* or the batch is exhausted, or the outer catch has logged the error of the
\* previous message; the cycle ends without raising, and the connector of the
\* channel records the time of the pass
PollNext(p) ==
    /\ pc[p] = "poll_next"
    /\ IF abortsPoll(result[p]) \/ req[p].todo = <<>>
       THEN /\ pc' = [pc EXCEPT ![p] = "done"]
            /\ result' = [result EXCEPT ![p] = Returned(0)]
            /\ UNCHANGED req
            /\ LET i == integrations[req[p].channelId]
               IN  IF i # 0 /\ stampsPoll(instances[i].type, abortsPoll(result[p]))
                   THEN \E t \in 0..MaxTime :
                            /\ ReadClock(t)
                            /\ instances' = [instances EXCEPT
                                                ![i].lastPollTime = <<t>>]
                   ELSE UNCHANGED <<now, instances>>
       ELSE /\ RoomForQuery
            /\ req' = [req EXCEPT ![p] =
                        PollItem(req[p].channelId, Head(req[p].todo), req[p].all,
                                 Tail(req[p].todo),
                                 Append(req[p].attempted, Head(req[p].todo)))]
            /\ pc' = [pc EXCEPT ![p] = "pm_lookup"]
            /\ result' = [result EXCEPT ![p] = NoResult]
            /\ UNCHANGED <<now, instances>>
    /\ UNCHANGED <<queries, assignments, op, loc>>
    /\ UNCHANGED <<responses, channels, integrations>>

-----------------------------------------------------------------------------
(* updateQuery *)

\* the fields of the request body the route validates
UpdateData(prios, stats) ==
    {[priority |-> pr, status |-> st] : pr \in prios, st \in stats}

UpdateInputs(ids, datas) ==
    {[queryId |-> i, data |-> d] : i \in ids, d \in datas}

CallUpdateQuery(p, inputs) ==
    /\ pc[p] = "idle"
    /\ \E d \in inputs :
        /\ op' = [op EXCEPT ![p] = "updateQuery"]
        /\ req' = [req EXCEPT ![p] = d]
    /\ Goto(p, "uq_load")
    /\ UNCHANGED <<now, queries, assignments, loc>>
    /\ UNCHANGED <<responses, supervisorVars>>

\* lines 345-347: the deadline is recomputed when the update carries a priority
\* other than the one just read
\* mutant: the deadline is recomputed whenever the update carries a priority
priorityGiven(data, query) == data.priority # Undefined

priorityChanges(data, query) ==
    data.priority # Undefined /\ data.priority # query.priority

\* await getQueryById, then the recomputation of slaDueAt
UpdateLoad(p) ==
    /\ pc[p] = "uq_load"
    /\ IF req[p].queryId \notin DOMAIN queries
       THEN /\ Finish(p, Thrown("NotFoundError: Query"))
            /\ UNCHANGED <<now, loc>>
       ELSE LET query == queries[req[p].queryId] IN
            /\ IF priorityChanges(req[p].data, query)
               THEN \E t \in 0..MaxTime :
                        /\ ReadClock(t)
                        /\ loc' = [loc EXCEPT ![p] =
                              [priority |-> query.priority, slaSet |-> TRUE,
                               slaDueAt |-> calculateSlaDueAt(req[p].data.priority, t)]]
               ELSE /\ loc' = [loc EXCEPT ![p] =
                              [priority |-> query.priority, slaSet |-> FALSE,
                               slaDueAt |-> 0]]
                    /\ UNCHANGED now
            /\ Goto(p, "uq_update")
    /\ UNCHANGED <<queries, assignments, op, req>>
    /\ UNCHANGED <<responses, supervisorVars>>

\* the row after prisma.query.update({ data: updateData })
applyUpdate(query, data, l) ==
    [query EXCEPT
        !.priority = IF data.priority # Undefined THEN data.priority ELSE @,
        !.status = IF data.status # Undefined THEN data.status ELSE @,
        !.slaDueAt = IF l.slaSet THEN l.slaDueAt ELSE @]

\* await prisma.query.update
UpdateWrite(p) ==
    /\ pc[p] = "uq_update"
    /\ queries' = [queries EXCEPT ![req[p].queryId] =
                        applyUpdate(@, req[p].data, loc[p])]
    /\ Finish(p, Returned(req[p].queryId))
    /\ UNCHANGED <<now, assignments, op, req, loc>>
    /\ UNCHANGED <<responses, supervisorVars>>

-----------------------------------------------------------------------------
(* assignQuery *)

AssignInputs(ids, users) ==
    {[queryId |-> i, userId |-> u] : i \in ids, u \in users}

CallAssignQuery(p, inputs) ==
    /\ pc[p] = "idle"
    /\ BagCardinality(assignments) < MaxAssignments
    /\ \E d \in inputs :
        /\ op' = [op EXCEPT ![p] = "assignQuery"]
        /\ req' = [req EXCEPT ![p] = d]
    /\ Goto(p, "aq_load")
    /\ UNCHANGED <<now, queries, assignments, loc>>
    /\ UNCHANGED <<responses, supervisorVars>>

\* await getQueryById, await prisma.user.findUnique (table "users" is fixed)
AssignLoad(p) ==
    /\ pc[p] = "aq_load"
    /\ IF req[p].queryId \notin DOMAIN queries
       THEN /\ Finish(p, Thrown("NotFoundError: Query"))
            /\ UNCHANGED loc
       ELSE IF req[p].userId \notin UserIds
       THEN /\ Finish(p, Thrown("NotFoundError: User"))
            /\ UNCHANGED loc
       ELSE /\ loc' = [loc EXCEPT ![p] = [status |-> queries[req[p].queryId].status]]
            /\ Goto(p, "aq_find")
    /\ UNCHANGED <<now, queries, assignments, op, req>>
    /\ UNCHANGED <<responses, supervisorVars>>

\* prisma.assignment.findFirst({ where: { queryId, userId } })
findAssignment(queryId, userId) ==
    {a \in BagToSet(assignments) : a.queryId = queryId /\ a.userId = userId}

\* mutant: the unique index on (query_id, user_id) is missing
AssignmentNotIndexed(queryId, userId) == FALSE

\* unique index assignments_query_id_user_id_key
AssignmentTaken(queryId, userId) ==
    BagIn([queryId |-> queryId, userId |-> userId], assignments)

\* await prisma.assignment.findFirst; throws when the pair is already assigned
AssignFind(p) ==
    /\ pc[p] = "aq_find"
    /\ IF findAssignment(req[p].queryId, req[p].userId) # {}
       THEN Finish(p, Thrown("ValidationError: Query is already assigned to this user"))
       ELSE Goto(p, "aq_create")
    /\ UNCHANGED <<now, queries, assignments, op, req, loc>>
    /\ UNCHANGED <<responses, supervisorVars>>

\* mutant: every assignment moves the query to ASSIGNED
needsTransitionAlways(status) == TRUE

\* line 441: the status read by getQueryById decides the transition
needsTransition(status) == status = "NEW"

\* await prisma.assignment.create; returns at once unless the status read was NEW
AssignCreate(p) ==
    /\ pc[p] = "aq_create"
    /\ IF AssignmentTaken(req[p].queryId, req[p].userId)
       THEN /\ Finish(p, Thrown("P2002: Unique constraint failed on (query_id, user_id)"))
            /\ UNCHANGED assignments
       ELSE /\ assignments' = assignments (+)
                    SetToBag({[queryId |-> req[p].queryId, userId |-> req[p].userId]})
            /\ IF needsTransition(loc[p].status)
               THEN Goto(p, "aq_update")
               ELSE Finish(p, Returned(req[p].queryId))
    /\ UNCHANGED <<now, queries, op, req, loc>>
    /\ UNCHANGED <<responses, supervisorVars>>

\* await prisma.query.update({ data: { status: 'ASSIGNED', assignedAt: new Date() } })
AssignUpdate(p) ==
    /\ pc[p] = "aq_update"
    /\ \E t \in 0..MaxTime :
        /\ ReadClock(t)
        /\ queries' = [queries EXCEPT ![req[p].queryId] =
                            [@ EXCEPT !.status = "ASSIGNED", !.assignedAt = <<t>>]]
    /\ Finish(p, Returned(req[p].queryId))
    /\ UNCHANGED <<assignments, op, req, loc>>
    /\ UNCHANGED <<responses, supervisorVars>>

-----------------------------------------------------------------------------
(* createResponse (responseService.js) *)

\* arguments of createResponse; isInternal defaults to false
ResponseInputs(ids, users, internals) ==
    {[queryId |-> i, userId |-> u, isInternal |-> n] :
        i \in ids, u \in users, n \in internals}

\* a caller invokes responseService.createResponse(responseData)
CallCreateResponse(p, inputs) ==
    /\ pc[p] = "idle"
    /\ BagCardinality(responses) < MaxResponses
    /\ \E d \in inputs :
        /\ op' = [op EXCEPT ![p] = "createResponse"]
        /\ req' = [req EXCEPT ![p] = d]
    /\ Goto(p, "cr_load")
    /\ UNCHANGED <<now, queries, assignments, responses, loc, supervisorVars>>

\* await prisma.query.findUnique, await prisma.user.findUnique: the status read
\* here is the one line 99 tests
RespondLoad(p) ==
    /\ pc[p] = "cr_load"
    /\ IF req[p].queryId \notin DOMAIN queries
       THEN /\ Finish(p, Thrown("NotFoundError: Query"))
            /\ UNCHANGED loc
       ELSE IF req[p].userId \notin UserIds
       THEN /\ Finish(p, Thrown("NotFoundError: User"))
            /\ UNCHANGED loc
       ELSE /\ loc' = [loc EXCEPT ![p] = [status |-> queries[req[p].queryId].status]]
            /\ Goto(p, "cr_create")
    /\ UNCHANGED <<now, queries, assignments, responses, op, req, supervisorVars>>

\* mutant: only a response to a NEW query moves the query
respondTransitionFromNew(status, isInternal) == status = "NEW"

\* line 99: the status read by findUnique decides; isInternal is not consulted
respondTransition(status, isInternal) == status \in {"NEW", "ASSIGNED"}

\* await prisma.response.create, then the test of line 99
RespondCreate(p) ==
    /\ pc[p] = "cr_create"
    /\ responses' = responses (+) SetToBag({req[p]})
    /\ IF respondTransition(loc[p].status, req[p].isInternal)
       THEN Goto(p, "cr_update")
       ELSE Finish(p, Returned(req[p].queryId))
    /\ UNCHANGED <<now, queries, assignments, op, req, loc, supervisorVars>>

\* await prisma.query.update({ data: { status: 'IN_PROGRESS' } })
RespondUpdate(p) ==
    /\ pc[p] = "cr_update"
    /\ queries' = [queries EXCEPT ![req[p].queryId].status = "IN_PROGRESS"]
    /\ Finish(p, Returned(req[p].queryId))
    /\ UNCHANGED <<now, assignments, responses, op, req, loc, supervisorVars>>

-----------------------------------------------------------------------------
(* Connectors (baseIntegration.js and its subclasses) *)

\* integrationMap of getIntegrationClass
ConnectorTypes == {"EMAIL", "TWITTER", "FACEBOOK", "INSTAGRAM", "DISCORD", "SLACK"}

getIntegrationClass(channelType) ==
    IF channelType \in ConnectorTypes THEN channelType ELSE Undefined

\* connectors whose start() runs a first poll, which stamps lastPollTime
pollsOnStart(type) == type \in {"EMAIL", "FACEBOOK", "INSTAGRAM"}

\* initialize() creates the session that stop() will close: the Slack event
\* adapter when a signing secret is configured, the Discord client
opensSession(type, configuration) ==
    \/ type = "SLACK" /\ "signingSecret" \in DOMAIN configuration
    \/ type = "DISCORD"

\* start() opens the Twitter mention stream when a username is configured
opensStream(type, configuration) ==
    type = "TWITTER" /\ "username" \in DOMAIN configuration

\* start() calls setInterval: not for Discord, and for Slack only when there
\* is no event adapter
armsTimer(type, configuration) ==
    /\ type # "DISCORD"
    /\ ~(type = "SLACK" /\ "signingSecret" \in DOMAIN configuration)

\* initialize() throws when a required configuration key is missing
configured(configuration) == "password" \in DOMAIN configuration

\* new IntegrationClass(channelId, configuration)
\* session: the connector holds an external session its stop() closes;
\* afterStart: the last lifecycle call issued on the connector is a start()
NewIntegration(channelId, channel) ==
    [channelId |-> channelId, type |-> channel.type,
     configuration |-> channel.configuration, isActive |-> FALSE,
     pollInterval |-> FALSE, timers |-> 0, lastPollTime |-> NullTime,
     session |-> FALSE, afterStart |-> FALSE]

\* initialize() succeeded
initialized(integration) ==
    [integration EXCEPT
        !.session = @ \/ opensSession(integration.type, integration.configuration)]

\* stop() awaits the close of the session the connector holds
\* (slackEvents.stop(), client.destroy(), stream.close()), which can reject
awaitsClose(integration) == integration.session

\* a lifecycle call is issued on the connector
called(integration, call) ==
    [integration EXCEPT !.afterStart = (call = "start")]

\* what a caller of the supervisor holds: the connector, the result of its
\* test, whether testConnection() raised, whether the stop() it awaits is
\* closing a session, and whether the last call issued on the connector before
\* that stop() was a start()
Local(i, closing, prior) ==
    [inst |-> i, ok |-> FALSE, raised |-> FALSE, closing |-> closing,
     prior |-> prior]

\* start() once initialize(), the connection and the first poll succeeded:
\* setInterval, isActive = true
started(integration, t) ==
    [initialized(integration) EXCEPT
                        !.session = @ \/ opensStream(integration.type,
                                                     integration.configuration),
                        !.pollInterval = @ \/ armsTimer(integration.type,
                                                        integration.configuration),
                        !.timers = IF armsTimer(integration.type,
                                                integration.configuration)
                                   THEN @ + 1 ELSE @,
                        !.isActive = TRUE,
                        !.lastPollTime = IF pollsOnStart(integration.type)
                                         THEN <<t>> ELSE @]

\* the synchronous part of stop(): clearInterval(this.pollInterval), and for
\* a connector with no session to close, super.stop()
stopping(integration) ==
    [integration EXCEPT !.pollInterval = FALSE,
                        !.timers = IF integration.pollInterval THEN @ - 1 ELSE @,
                        !.isActive = IF awaitsClose(integration)
                                     THEN @ ELSE FALSE,
                        !.afterStart = FALSE]

\* stop() after the close of the session: the session is dropped
\* (this.slackEvents = null, this.client = null), then super.stop()
stopped(integration) ==
    [integration EXCEPT !.session = FALSE, !.isActive = FALSE]

\* mutant: the status carries the configuration itself
getStatusWithValues(integration) ==
    [channelId |-> integration.channelId, isActive |-> integration.isActive,
     lastPollTime |-> integration.lastPollTime,
     configuration |-> integration.configuration]

\* BaseIntegration.getStatus: Object.keys(this.configuration)
getStatus(integration) ==
    [channelId |-> integration.channelId, isActive |-> integration.isActive,
     lastPollTime |-> integration.lastPollTime,
     configuration |-> DOMAIN integration.configuration]

-----------------------------------------------------------------------------
(* IntegrationManager *)

\* this.integrations.get(channelId), 0 when there is none
getIntegration(channelId) ==
    IF channelId \in DOMAIN integrations THEN integrations[channelId] ELSE 0

Registered == {c \in DOMAIN integrations : integrations[c] # 0}

\* mutant: the entry is kept
keepIntegration(registry, channelId) == registry

\* this.integrations.delete(channelId)
deleteIntegration(registry, channelId) ==
    [c \in DOMAIN registry |-> IF c = channelId THEN 0 ELSE registry[c]]

ChannelRequest(c) == [channelId |-> c]

\* callers that are about to construct a connector
Building ==
    {p \in Procs : \/ pc[p] \in {"sc_init", "tc_init"}
                   \/ pc[p] = "st_stopping" /\ op[p] = "reloadChannel"}

\* the model stops constructing connectors at MaxInstances
RoomForInstance == Len(instances) + Cardinality(Building) < MaxInstances

TestResult(ok) ==
    [status |-> "returned", error |-> IF ok THEN "" ELSE "success: false", id |-> 0]

\* lines 64-73: the registered instance is started, or one is initialized
\* first; start() returns at once when the instance is already active
BeginStart(p, channelId) ==
    LET i == getIntegration(channelId)
    IN  /\ loc' = [loc EXCEPT ![p] = Local(i, FALSE, FALSE)]
        /\ IF i = 0
           THEN /\ Goto(p, "sc_init")
                /\ UNCHANGED instances
           ELSE /\ instances' = [instances EXCEPT ![i] = called(@, "start")]
                /\ IF instances[i].isActive
                   THEN Finish(p, Returned(i))
                   ELSE Goto(p, "sc_starting")

\* a caller invokes integrationManager.startChannel(channelId)
CallStartChannel(p, chans) ==
    /\ pc[p] = "idle"
    /\ RoomForInstance
    /\ \E c \in chans :
        /\ op' = [op EXCEPT ![p] = "startChannel"]
        /\ req' = [req EXCEPT ![p] = ChannelRequest(c)]
        /\ BeginStart(p, c)
    /\ UNCHANGED <<now, queries, assignments, responses, channels, integrations>>

\* mutant: initializeChannel registers a connector for any stored channel
initializableAny(channelId) == channelId \in DOMAIN channels

\* lines 30-47: the channel exists, is active and its type has a connector
initializable(channelId) ==
    /\ channelId \in DOMAIN channels
    /\ channels[channelId].isActive
    /\ getIntegrationClass(channels[channelId].type) # Undefined

\* lines 49-52: construct the connector and register it under the channel id
\* call: start() follows at once in startChannel ("start"), not in
\* testChannelConnection ("new")
register(p, channelId, call) ==
    /\ instances' = Append(instances,
                        called(NewIntegration(channelId, channels[channelId]), call))
    /\ integrations' = [integrations EXCEPT ![channelId] = Len(instances) + 1]
    /\ loc' = [loc EXCEPT ![p] = Local(Len(instances) + 1, FALSE, FALSE)]

\* startChannel after await prisma.channel.findUnique of initializeChannel
StartInit(p) ==
    /\ pc[p] = "sc_init"
    /\ LET c == req[p].channelId
       IN  IF c \notin DOMAIN channels
           THEN /\ Finish(p, Thrown("Error: Channel not found"))
                /\ UNCHANGED <<integrations, instances, loc>>
           ELSE IF ~initializable(c)
           THEN /\ Finish(p, Thrown("Error: Failed to initialize integration"))
                /\ UNCHANGED <<integrations, instances, loc>>
           ELSE /\ register(p, c, "start")
                /\ Goto(p, "sc_starting")
    /\ UNCHANGED <<now, queries, assignments, responses, channels, op, req>>

\* await integration.start(): initialize(), the connection or the first poll
\* throws (before or after initialize() created the session) and startChannel
\* rethrows, or the connector becomes active; the clock is read by the first
\* poll only
StartFinish(p) ==
    /\ pc[p] = "sc_starting"
    /\ LET i == loc[p].inst
       IN  \/ /\ Finish(p, Thrown("Error: start failed"))
              /\ \E n \in {instances[i]}
                        \cup IF configured(instances[i].configuration)
                             THEN {initialized(instances[i])} ELSE {} :
                    instances' = [instances EXCEPT ![i] = n]
              /\ UNCHANGED now
           \/ /\ configured(instances[i].configuration)
              /\ IF pollsOnStart(instances[i].type)
                 THEN \E t \in 0..MaxTime :
                        /\ ReadClock(t)
                        /\ instances' = [instances EXCEPT ![i] = started(@, t)]
                 ELSE /\ instances' = [instances EXCEPT ![i] = started(@, now)]
                      /\ UNCHANGED now
              /\ Finish(p, Returned(i))
    /\ UNCHANGED <<queries, assignments, responses, channels, integrations,
                   op, req, loc>>

\* lines 84-90: no instance, or the synchronous part of integration.stop()
BeginStop(p, channelId, operation) ==
    LET i == getIntegration(channelId)
    IN  /\ loc' = [loc EXCEPT ![p] =
                    IF i = 0 THEN Local(0, FALSE, FALSE)
                    ELSE Local(i, awaitsClose(instances[i]), instances[i].afterStart)]
        /\ IF i = 0
           THEN /\ UNCHANGED instances
                /\ IF operation = "reloadChannel"
                   THEN Goto(p, "sc_init")
                   ELSE Finish(p, Returned(0))
           ELSE /\ instances' = [instances EXCEPT ![i] = stopping(@)]
                /\ Goto(p, "st_stopping")

\* a caller invokes integrationManager.stopChannel(channelId)
CallStopChannel(p, chans) ==
    /\ pc[p] = "idle"
    /\ \E c \in chans :
        /\ op' = [op EXCEPT ![p] = "stopChannel"]
        /\ req' = [req EXCEPT ![p] = ChannelRequest(c)]
        /\ BeginStop(p, c, "stopChannel")
    /\ UNCHANGED <<now, queries, assignments, responses, channels, integrations>>

\* a caller invokes integrationManager.reloadChannel(channelId)
CallReloadChannel(p, chans) ==
    /\ pc[p] = "idle"
    /\ RoomForInstance
    /\ \E c \in chans :
        /\ op' = [op EXCEPT ![p] = "reloadChannel"]
        /\ req' = [req EXCEPT ![p] = ChannelRequest(c)]
        /\ BeginStop(p, c, "reloadChannel")
    /\ UNCHANGED <<now, queries, assignments, responses, channels, integrations>>

\* await integration.stop() of stopChannel: the close of the session rejects
\* and stopChannel rethrows before line 91, or stop() completes and the entry
\* is deleted; reloadChannel goes on with startChannel
StopFinish(p) ==
    /\ pc[p] = "st_stopping"
    /\ LET i == loc[p].inst
           c == req[p].channelId
       IN  \/ /\ loc[p].closing
              /\ Finish(p, Thrown("Error: stop failed"))
              /\ UNCHANGED <<integrations, instances>>
           \/ /\ instances' = IF loc[p].closing
                               THEN [instances EXCEPT ![i] = stopped(@)]
                               ELSE instances
              /\ integrations' = deleteIntegration(integrations, c)
              /\ IF op[p] = "reloadChannel"
                 THEN Goto(p, "sc_init")
                 ELSE Finish(p, Returned(0))
    /\ UNCHANGED <<now, queries, assignments, responses, channels, op, req, loc>>

\* a caller invokes integrationManager.testChannelConnection(channelId)
CallTestChannel(p, chans) ==
    /\ pc[p] = "idle"
    /\ RoomForInstance
    /\ \E c \in chans :
        /\ op' = [op EXCEPT ![p] = "testChannelConnection"]
        /\ req' = [req EXCEPT ![p] = ChannelRequest(c)]
    /\ loc' = [loc EXCEPT ![p] = Local(0, FALSE, FALSE)]
    /\ Goto(p, "tc_init")
    /\ UNCHANGED <<now, queries, assignments, responses, supervisorVars>>

\* line 105: initializeChannel registers the connector under test; a missing
\* channel is caught at line 116
TestInit(p) ==
    /\ pc[p] = "tc_init"
    /\ LET c == req[p].channelId
       IN  IF ~initializable(c)
           THEN /\ Finish(p, TestResult(FALSE))
                /\ UNCHANGED <<integrations, instances, loc>>
           ELSE /\ register(p, c, "new")
                /\ Goto(p, "tc_test")
    /\ UNCHANGED <<now, queries, assignments, responses, channels, op, req>>

\* mutant: the error of initialize() escapes testConnection()
testConnectionRaising(integration, init, ok) ==
    [success |-> ok, raised |-> ~init,
     integration |-> IF init THEN initialized(integration) ELSE integration]

\* testConnection(): try { await this.initialize(); the external call }
\* catch { return { success: false, message } }; init and ok are the outcomes
\* of initialize() and of the external call
testConnection(integration, init, ok) ==
    [success |-> ok, raised |-> FALSE,
     integration |-> IF init THEN initialized(integration) ELSE integration]

\* the outcomes testConnection() can meet: initialize() succeeds only on a
\* complete configuration, the external call only after initialize()
TestOutcomes(integration) ==
    {o \in [init : BOOLEAN, ok : BOOLEAN] :
        /\ o.init => configured(integration.configuration)
        /\ o.ok => o.init}

\* line 110: await integration.testConnection(); an error it raised would be
\* caught at line 116; then the synchronous part of integration.stop() of
\* line 112
TestRun(p) ==
    /\ pc[p] = "tc_test"
    /\ LET i == loc[p].inst
       IN  \E o \in TestOutcomes(instances[i]) :
            LET t == testConnection(instances[i], o.init, o.ok)
            IN  IF t.raised
                THEN /\ instances' = [instances EXCEPT ![i] = t.integration]
                     /\ loc' = [loc EXCEPT ![p].raised = TRUE]
                     /\ Finish(p, TestResult(FALSE))
                ELSE /\ instances' = [instances EXCEPT ![i] = stopping(t.integration)]
                     /\ loc' = [loc EXCEPT ![p] =
                                 [Local(i, awaitsClose(t.integration),
                                        t.integration.afterStart)
                                  EXCEPT !.ok = t.success]]
                     /\ Goto(p, "tc_stop")
    /\ UNCHANGED <<now, queries, assignments, responses, channels, integrations,
                   op, req>>

\* lines 112-115: stop() has ended (a rejection is swallowed), the entry of the
\* channel id is deleted and the result of the test returned
TestFinish(p) ==
    /\ pc[p] = "tc_stop"
    /\ LET i == loc[p].inst
       IN  \/ /\ loc[p].closing
              /\ UNCHANGED instances
           \/ instances' = IF loc[p].closing
                           THEN [instances EXCEPT ![i] = stopped(@)]
                           ELSE instances
    /\ integrations' = deleteIntegration(integrations, req[p].channelId)
    /\ Finish(p, TestResult(loc[p].ok))
    /\ UNCHANGED <<now, queries, assignments, responses, channels, op, req, loc>>

\* prisma.query.findUnique({ where: { id }, include }): the row with the
\* relations named by include, null (found = FALSE) when there is no such row
findUniqueInclude(queryId, relations) ==
    IF queryId \notin DOMAIN queries THEN [found |-> FALSE]
    ELSE [f \in {"found", "id", "channelId"} \cup relations |->
            CASE f = "found" -> TRUE
              [] f = "id" -> queryId
              [] f = "channelId" -> queries[queryId].channelId
              [] f = "channel" -> channels[queries[queryId].channelId]
              [] f = "assignments" ->
                    {a \in BagToSet(assignments) : a.queryId = queryId}]

\* query.assignments[0]?.userId || null: indexing raises a TypeError when the
\* relation was not loaded
firstAssignee(query) ==
    IF "assignments" \notin DOMAIN query
    THEN [raised |-> TRUE, userId |-> Undefined]
    ELSE IF query.assignments = {}
    THEN [raised |-> FALSE, userId |-> Undefined]
    ELSE [raised |-> FALSE,
          userId |-> (CHOOSE a \in query.assignments : TRUE).userId]

\* sendResponse(queryId, ...) on the connector of a channel
ReplyInputs(connectors, ids) ==
    {[channelId |-> c, queryId |-> i] : c \in connectors, i \in ids}

\* what a caller of sendResponse holds: the query it read and whether it
\* made the protocol call
Reply(query, posted) == [query |-> query, posted |-> posted]

\* a caller invokes sendResponse on the connector of channel req.channelId
CallSendResponse(p, inputs) ==
    /\ pc[p] = "idle"
    /\ op' = [op EXCEPT ![p] = "sendResponse"]
    /\ \E r \in inputs : req' = [req EXCEPT ![p] = r]
    /\ loc' = [loc EXCEPT ![p] = Reply([found |-> FALSE], FALSE)]
    /\ Goto(p, "sr_load")
    /\ UNCHANGED <<now, queries, assignments, responses, supervisorVars>>

\* await prisma.query.findUnique({ include: { channel: true } }), the test
\* of the channel, and the test of the address to reply to (sender id,
\* channel id, comment id), which the query may lack
SendLoad(p) ==
    /\ pc[p] = "sr_load"
    /\ LET query == findUniqueInclude(req[p].queryId, {"channel"})
       IN  IF ~query.found \/ query.channelId # req[p].channelId
           THEN /\ Finish(p, Thrown("Error: Query not found or not from this channel"))
                /\ UNCHANGED loc
           ELSE \/ /\ Finish(p, Thrown("Error: No sender ID found in query"))
                   /\ UNCHANGED loc
                \/ /\ loc' = [loc EXCEPT ![p] = Reply(query, FALSE)]
                   /\ Goto(p, "sr_post")
    /\ UNCHANGED <<now, queries, assignments, responses, op, req, supervisorVars>>

\* await of the protocol call (axios.post, chat.postMessage, channel.send),
\* which fails or succeeds; then the data of prisma.response.create is built,
\* which raises or not; then await prisma.response.create
SendDeliver(p) ==
    /\ pc[p] \in {"sr_post", "sr_create"}
    /\ IF pc[p] = "sr_post"
       THEN \/ /\ Finish(p, Thrown("Error: protocol call failed"))
               /\ UNCHANGED <<loc, responses>>
            \/ /\ loc' = [loc EXCEPT ![p].posted = TRUE]
               /\ IF firstAssignee(loc[p].query).raised
                  THEN Finish(p, Thrown("TypeError: Cannot read properties of undefined"))
                  ELSE Goto(p, "sr_create")
               /\ UNCHANGED responses
       ELSE /\ responses' = responses (+)
                    SetToBag({[queryId |-> req[p].queryId,
                               userId |-> firstAssignee(loc[p].query).userId,
                               isInternal |-> FALSE]})
            /\ Finish(p, Returned(req[p].queryId))
            /\ UNCHANGED loc
    /\ UNCHANGED <<now, queries, assignments, op, req, supervisorVars>>

\* IntegrationManager.getStatus: the status of every registered connector
statusOutput == {getStatus(instances[integrations[c]]) : c \in Registered}

\* a caller invokes integrationManager.getStatus()
GetStatus(p) ==
    /\ pc[p] = "idle"
    /\ op' = [op EXCEPT ![p] = "getStatus"]
    /\ req' = [req EXCEPT ![p] = NoReq]
    /\ loc' = [loc EXCEPT ![p] = [output |-> statusOutput]]
    /\ Finish(p, Returned(0))
    /\ UNCHANGED <<now, queries, assignments, responses, supervisorVars>>

\* the orders in which a set of channel ids can be listed
Orderings(S) ==
    {s \in [1..Cardinality(S) -> S] : \A c \in S : \E k \in DOMAIN s : s[k] = c}

\* the loop state of startAllActiveChannels / stopAll: the list it iterates,
\* the rest of it, the channel ids passed to startChannel / stopChannel so
\* far, and those whose call threw
BatchRequest(list) ==
    [channelId |-> Undefined, all |-> list, todo |-> list, attempted |-> <<>>,
     failed |-> {}]

ActiveChannels == {c \in DOMAIN channels : channels[c].isActive}

\* a caller invokes startAllActiveChannels(); prisma.channel.findMany
\* ({ where: { isActive: true } }) returns the active channels
CallStartAll(p) ==
    /\ pc[p] = "idle"
    /\ op' = [op EXCEPT ![p] = "startAllActiveChannels"]
    /\ \E list \in Orderings(ActiveChannels) :
            req' = [req EXCEPT ![p] = BatchRequest(list)]
    /\ loc' = [loc EXCEPT ![p] = Local(0, FALSE, FALSE)]
    /\ pc' = [pc EXCEPT ![p] = "batch_next"]
    /\ UNCHANGED <<now, queries, assignments, responses, supervisorVars, result>>

\* a caller invokes stopAll(): Array.from(this.integrations.keys())
CallStopAll(p) ==
    /\ pc[p] = "idle"
    /\ op' = [op EXCEPT ![p] = "stopAll"]
    /\ \E list \in Orderings(Registered) :
            req' = [req EXCEPT ![p] = BatchRequest(list)]
    /\ loc' = [loc EXCEPT ![p] = Local(0, FALSE, FALSE)]
    /\ pc' = [pc EXCEPT ![p] = "batch_next"]
    /\ UNCHANGED <<now, queries, assignments, responses, supervisorVars, result>>

\* mutant: the error of one channel ends the loop and is rethrown
abortsBatchOnThrow(r) == r.status = "thrown"

\* lines 139-143 and 158-162: the catch inside the loop logs the error of
\* the channel and the loop goes on
abortsBatch(r) == FALSE

\* one turn of the for loop: the outcome of the previous channel is caught,
\* then startChannel / stopChannel is called for the next channel id, or the
\* list is exhausted and the operation returns
BatchNext(p) ==
    /\ pc[p] = "batch_next"
    /\ LET failed == IF result[p].status = "thrown"
                     THEN req[p].failed \cup {req[p].channelId}
                     ELSE req[p].failed
       IN  IF abortsBatch(result[p])
           THEN /\ pc' = [pc EXCEPT ![p] = "done"]
                /\ req' = [req EXCEPT ![p].failed = failed]
                /\ UNCHANGED <<result, loc, instances>>
           ELSE IF req[p].todo = <<>>
           THEN /\ pc' = [pc EXCEPT ![p] = IF op[p] = "gracefulShutdown"
                                           THEN "sd_disconnect" ELSE "done"]
                /\ result' = [result EXCEPT ![p] = Returned(0)]
                /\ req' = [req EXCEPT ![p].failed = failed]
                /\ UNCHANGED <<loc, instances>>
           ELSE LET c == Head(req[p].todo)
                IN  /\ req' = [req EXCEPT ![p] =
                                [channelId |-> c, all |-> req[p].all,
                                 todo |-> Tail(req[p].todo),
                                 attempted |-> Append(req[p].attempted, c),
                                 failed |-> failed]]
                    /\ IF op[p] = "startAllActiveChannels"
                       THEN /\ getIntegration(c) = 0 => RoomForInstance
                            /\ BeginStart(p, c)
                       ELSE BeginStop(p, c, op[p])
    /\ UNCHANGED <<now, queries, assignments, responses, channels, integrations, op>>

\* SIGTERM or SIGINT: gracefulShutdown calls stopAll()
CallShutdown(p) ==
    /\ pc[p] = "idle"
    /\ op' = [op EXCEPT ![p] = "gracefulShutdown"]
    /\ \E list \in Orderings(Registered) :
            req' = [req EXCEPT ![p] = BatchRequest(list)]
    /\ loc' = [loc EXCEPT ![p] = Local(0, FALSE, FALSE)]
    /\ pc' = [pc EXCEPT ![p] = "batch_next"]
    /\ UNCHANGED <<now, queries, assignments, responses, supervisorVars, result>>

\* the close of the session that stop() awaits never settles: nothing in
\* stop(), stopChannel, stopAll or gracefulShutdown bounds the wait
StopHangs(p) ==
    /\ pc[p] = "st_stopping"
    /\ loc[p].closing
    /\ pc' = [pc EXCEPT ![p] = "st_hung"]
    /\ UNCHANGED <<now, queries, assignments, responses, supervisorVars, op, req,
                   loc, result>>

\* gracefulShutdown after stopAll: await prisma.$disconnect()
Disconnect(p) ==
    /\ pc[p] = "sd_disconnect"
    /\ pc' = [pc EXCEPT ![p] = "sd_exit"]
    /\ UNCHANGED <<now, queries, assignments, responses, supervisorVars, op, req,
                   loc, result>>

\* process.exit(0): no continuation of any caller runs after it
Exit(p) ==
    /\ pc[p] = "sd_exit"
    /\ pc' = [q \in Procs |-> "exited"]
    /\ UNCHANGED <<now, queries, assignments, responses, supervisorVars, op, req,
                   loc, result>>

\* the process has not exited
Running == \A p \in Procs : pc[p] # "exited"

\* channelService.updateChannel sets the administrative flag of a channel
UpdateChannel(c, flag) ==
    /\ c \in DOMAIN channels
    /\ channels[c].isActive # flag
    /\ channels' = [channels EXCEPT ![c].isActive = flag]
    /\ UNCHANGED <<now, queries, assignments, responses, integrations, instances,
                   pc, op, req, loc, result>>

\* the channels table outside the supervisor's specifications
DefaultChannels ==
    [c \in ChannelIds |->
        [type |-> "EMAIL", isActive |-> TRUE,
         configuration |-> [host |-> "h", password |-> "s1"]]]

NoConnectors ==
    /\ channels = DefaultChannels
    /\ integrations = [c \in ChannelIds |-> 0]
    /\ instances = <<>>

-----------------------------------------------------------------------------
(* Environment *)

\* the caller has consumed the outcome and is free for the next request
Return(p) ==
    /\ pc[p] = "done"
    /\ pc' = [pc EXCEPT ![p] = "idle"]
    /\ op' = [op EXCEPT ![p] = "none"]
    /\ req' = [req EXCEPT ![p] = NoReq]
    /\ loc' = [loc EXCEPT ![p] = NoLoc]
    /\ result' = [result EXCEPT ![p] = NoResult]
    /\ UNCHANGED <<now, queries, assignments>>
    /\ UNCHANGED <<responses, supervisorVars>>

Idle ==
    /\ pc = [p \in Procs |-> "idle"]
    /\ op = [p \in Procs |-> "none"]
    /\ req = [p \in Procs |-> NoReq]
    /\ loc = [p \in Procs |-> NoLoc]
    /\ result = [p \in Procs |-> NoResult]

-----------------------------------------------------------------------------
(* Requests and classifier responses *)

QueryIds == 1..MaxQueries

AllResponses ==
    MLFailures
    \cup MLBodies({"question", "other", Undefined}, Sentiments \cup {Undefined},
                  Priorities \cup {Undefined})

AllQueryData ==
    QueryData(ChannelIds \cup {"c9"}, {Undefined, "k1", "k9"},
              {ContentEmpty, ContentPlain, ContentAsap, ContentDown},
              Sentiments \cup {Undefined}, Priorities \cup {Undefined},
              {Undefined, "true", "false"}, {Undefined, "m1", "m2"}, BOOLEAN)

AllUpdates ==
    UpdateInputs(QueryIds \cup {MaxQueries + 1},
                 UpdateData(Priorities \cup {Undefined}, Statuses \cup {Undefined}))

AllAssigns == AssignInputs(QueryIds \cup {MaxQueries + 1}, UserIds \cup {"u9"})

-----------------------------------------------------------------------------
(* Specification: the whole lifecycle manager, from an empty store *)

Init ==
    /\ now = 0
    /\ queries = <<>>
    /\ assignments = EmptyBag
    /\ responses = EmptyBag
    /\ NoConnectors
    /\ Idle

Next ==
    \/ \E p \in Procs : CallCreateQuery(p, AllQueryData)
    \/ \E p \in Procs : CallProcessMessage(p, AllQueryData)
    \/ \E p \in Procs : ProcessLookup(p)
    \/ \E p \in Procs : CreateFindChannel(p)
    \/ \E p \in Procs : CreateAnalyze(p, AllResponses)
    \/ \E p \in Procs : CreateCategory(p)
    \/ \E p \in Procs : CreateInsert(p)
    \/ \E p \in Procs : CallUpdateQuery(p, AllUpdates)
    \/ \E p \in Procs : UpdateLoad(p)
    \/ \E p \in Procs : UpdateWrite(p)
    \/ \E p \in Procs : CallAssignQuery(p, AllAssigns)
    \/ \E p \in Procs : AssignLoad(p)
    \/ \E p \in Procs : AssignFind(p)
    \/ \E p \in Procs : AssignCreate(p)
    \/ \E p \in Procs : AssignUpdate(p)
    \/ \E p \in Procs : Return(p)

Spec == Init /\ [][Next]_vars

-----------------------------------------------------------------------------
(* Specification: ingestion by concurrent connectors and callers *)

IngestInputs ==
    QueryData(ChannelIds, {Undefined}, {ContentPlain}, {Undefined}, {Undefined},
              {Undefined}, {Undefined, "m1"}, {FALSE})

IngestResponses ==
    {r \in MLFailures : r.status = "error"}
    \cup {r \in MLBodies({"question"}, {"NEGATIVE"}, {"HIGH"}) :
            r.data.is_urgent /\ ~r.data.is_vip}

NextIngest ==
    \/ \E p \in Procs : CallCreateQuery(p, IngestInputs)
    \/ \E p \in Procs : CallProcessMessage(p, IngestInputs)
    \/ \E p \in Procs : ProcessLookup(p)
    \/ \E p \in Procs : CreateFindChannel(p)
    \/ \E p \in Procs : CreateAnalyze(p, IngestResponses)
    \/ \E p \in Procs : CreateCategory(p)
    \/ \E p \in Procs : CreateInsert(p)
    \/ \E p \in Procs : Return(p)

SpecIngest == Init /\ [][NextIngest]_vars

-----------------------------------------------------------------------------
(* Specification: assignment and update of one ingested query *)

\* the query createQuery persists at time 0 for a plain message when the
\* classifier is unreachable
SeedRequest ==
    [channelId |-> "c1", categoryId |-> Undefined, content |-> ContentPlain,
     sentiment |-> Undefined, priority |-> Undefined, isVip |-> Undefined,
     externalId |-> "m1", skipMLAnalysis |-> FALSE, status |-> Undefined]

SeedQuery ==
    NewQuery(SeedRequest,
             withDeadline(resolveFields(SeedRequest,
                              [status |-> "error", data |-> NoAnalysis]), 0),
             1, 0)

LifecycleUpdates ==
    UpdateInputs({1},
        UpdateData({"CRITICAL", "MEDIUM"}, {Undefined})
        \cup UpdateData({Undefined}, {"NEW", "IN_PROGRESS", "RESOLVED", "CLOSED"}))
    \cup UpdateInputs({2}, UpdateData({"CRITICAL"}, {Undefined}))

LifecycleAssigns ==
    AssignInputs({1}, UserIds) \cup AssignInputs({2}, {"u1"})
    \cup AssignInputs({1}, {"u9"})

InitLifecycle ==
    /\ now = 0
    /\ queries = <<SeedQuery>>
    /\ assignments = EmptyBag
    /\ responses = EmptyBag
    /\ NoConnectors
    /\ Idle

NextLifecycle ==
    \/ \E p \in Procs : CallUpdateQuery(p, LifecycleUpdates)
    \/ \E p \in Procs : UpdateLoad(p)
    \/ \E p \in Procs : UpdateWrite(p)
    \/ \E p \in Procs : CallAssignQuery(p, LifecycleAssigns)
    \/ \E p \in Procs : AssignLoad(p)
    \/ \E p \in Procs : AssignFind(p)
    \/ \E p \in Procs : AssignCreate(p)
    \/ \E p \in Procs : AssignUpdate(p)
    \/ \E p \in Procs : Return(p)

SpecLifecycle == InitLifecycle /\ [][NextLifecycle]_vars

-----------------------------------------------------------------------------
(* Specification: one createQuery call, over all requests and all classifier *)
(* outcomes, on an empty store or on a store that holds one query            *)

CreateRequests ==
    QueryData({"c1"}, {Undefined},
              {ContentEmpty, ContentPlain, ContentAsap, ContentDown},
              Sentiments \cup {Undefined}, Priorities \cup {Undefined},
              {Undefined, "true", "false"}, {"m2"}, BOOLEAN)
    \cup QueryData({"c1", "c9"}, {Undefined, "k1", "k9"}, {ContentPlain},
                   {Undefined}, {Undefined}, {Undefined},
                   {Undefined, "m1", "m2"}, {FALSE})
    \cup SuppliedStatus(QueryData({"c1"}, {Undefined}, {ContentPlain, ContentAsap},
                                  {Undefined}, {Undefined}, {Undefined}, {"m2"},
                                  BOOLEAN),
                        Statuses)

CreateResponses == AllResponses

Caller == "p1"

InitCreate ==
    /\ now = 0
    /\ queries \in {<<>>, <<SeedQuery>>}
    /\ assignments = EmptyBag
    /\ responses = EmptyBag
    /\ NoConnectors
    /\ pc = [p \in Procs |-> IF p = Caller THEN "cq_findChannel" ELSE "idle"]
    /\ op = [p \in Procs |-> IF p = Caller THEN "createQuery" ELSE "none"]
    /\ \E d \in CreateRequests :
        req = [p \in Procs |-> IF p = Caller THEN d ELSE NoReq]
    /\ loc = [p \in Procs |-> NoLoc]
    /\ result = [p \in Procs |-> NoResult]

NextCreate ==
    \/ \E p \in Procs : CreateFindChannel(p)
    \/ \E p \in Procs : CreateAnalyze(p, CreateResponses)
    \/ \E p \in Procs : CreateCategory(p)
    \/ \E p \in Procs : CreateInsert(p)

SpecCreate == InitCreate /\ [][NextCreate]_vars

-----------------------------------------------------------------------------
(* Specification: responses and manual status updates on one stored query *)

RespondInputs ==
    ResponseInputs({1}, {"u1"}, BOOLEAN)
    \cup ResponseInputs({2}, {"u1"}, {FALSE})
    \cup ResponseInputs({1}, {"u9"}, {FALSE})

RespondUpdates ==
    UpdateInputs({1}, UpdateData({Undefined},
                                 {"ASSIGNED", "IN_PROGRESS", "RESOLVED", "CLOSED"}))

NextRespond ==
    \/ \E p \in Procs : CallCreateResponse(p, RespondInputs)
    \/ \E p \in Procs : RespondLoad(p)
    \/ \E p \in Procs : RespondCreate(p)
    \/ \E p \in Procs : RespondUpdate(p)
    \/ \E p \in Procs : CallUpdateQuery(p, RespondUpdates)
    \/ \E p \in Procs : UpdateLoad(p)
    \/ \E p \in Procs : UpdateWrite(p)
    \/ \E p \in Procs : Return(p)

SpecRespond == InitLifecycle /\ [][NextRespond]_vars

-----------------------------------------------------------------------------
(* Specification: the connector supervisor under concurrent administrative *)
(* calls, on one channel with a connector, one without, and an unknown id  *)

\* the channel c1 as stored: a mailbox, a Slack workspace with another
\* secret, a mailbox whose configuration lacks the password
Configurations ==
    {[type |-> "EMAIL", configuration |-> [host |-> "h", password |-> "s1"]],
     [type |-> "SLACK",
      configuration |-> [host |-> "h", password |-> "s2", signingSecret |-> "s2"]],
     [type |-> "EMAIL", configuration |-> [host |-> "h"]]}

\* startChannel is called for every kind of channel id, the other operations
\* for the channel that can have a connector; the test also for an unknown id
AdminChannels == {"c1", "c2", "c9"}

StartedChannels == {"c1"}

TestedChannels == {"c1", "c9"}

InitSupervisor ==
    /\ now = 0
    /\ queries = <<>>
    /\ assignments = EmptyBag
    /\ responses = EmptyBag
    /\ \E stored \in Configurations :
        channels = [c \in ChannelIds |->
            IF c = "c1"
            THEN [type |-> stored.type, isActive |-> TRUE,
                  configuration |-> stored.configuration]
            ELSE [type |-> "WHATSAPP", isActive |-> TRUE,
                  configuration |-> stored.configuration]]
    /\ integrations = [c \in ChannelIds |-> 0]
    /\ instances = <<>>
    /\ Idle

NextSupervisor ==
    \/ \E p \in Procs : CallStartChannel(p, AdminChannels)
    \/ \E p \in Procs : StartInit(p)
    \/ \E p \in Procs : StartFinish(p)
    \/ \E p \in Procs : CallStopChannel(p, StartedChannels)
    \/ \E p \in Procs : CallReloadChannel(p, StartedChannels)
    \/ \E p \in Procs : StopFinish(p)
    \/ \E p \in Procs : CallTestChannel(p, TestedChannels)
    \/ \E p \in Procs : TestInit(p)
    \/ \E p \in Procs : TestRun(p)
    \/ \E p \in Procs : TestFinish(p)
    \/ \E p \in Procs : GetStatus(p)
    \/ \E flag \in BOOLEAN : UpdateChannel("c1", flag)
    \/ \E p \in Procs : Return(p)

SpecSupervisor == InitSupervisor /\ [][NextSupervisor]_vars

-----------------------------------------------------------------------------
(* Specification: startAllActiveChannels and stopAll, one batch at a time,   *)
(* over two channels that have connectors, each start and each stop failing *)
(* or not                                                                   *)

InitFleet ==
    /\ now = 0
    /\ queries = <<>>
    /\ assignments = EmptyBag
    /\ responses = EmptyBag
    /\ \E stored \in Configurations :
        channels = [c \in ChannelIds |->
            IF c = "c1"
            THEN [type |-> stored.type, isActive |-> TRUE,
                  configuration |-> stored.configuration]
            ELSE [type |-> "EMAIL", isActive |-> TRUE,
                  configuration |-> [host |-> "h", password |-> "s1"]]]
    /\ integrations = [c \in ChannelIds |-> 0]
    /\ instances = <<>>
    /\ Idle

\* no other call of the supervisor is in progress
Quiet == \A p \in Procs : pc[p] \in {"idle", "done"}

NextFleet ==
    \/ \E p \in Procs : Quiet /\ CallStartAll(p)
    \/ \E p \in Procs : Quiet /\ CallStopAll(p)
    \/ \E p \in Procs : BatchNext(p)
    \/ \E p \in Procs : StartInit(p)
    \/ \E p \in Procs : StartFinish(p)
    \/ \E p \in Procs : StopFinish(p)
    \/ \E flag \in BOOLEAN : UpdateChannel("c1", flag)
    \/ \E p \in Procs : Return(p)

SpecFleet == InitFleet /\ [][NextFleet]_vars

-----------------------------------------------------------------------------
(* Specification: replies sent through the connectors of two channels for   *)
(* the stored query of channel c1, an assigned one, and a query id that     *)
(* does not exist                                                           *)

ReplyRequests == ReplyInputs(ChannelIds, {1, 2})

ReplyAssigns == AssignInputs({1}, {"u1"})

NextReply ==
    \/ \E p \in Procs : CallSendResponse(p, ReplyRequests)
    \/ \E p \in Procs : SendLoad(p)
    \/ \E p \in Procs : SendDeliver(p)
    \/ \E p \in Procs : CallAssignQuery(p, ReplyAssigns)
    \/ \E p \in Procs : AssignLoad(p)
    \/ \E p \in Procs : AssignFind(p)
    \/ \E p \in Procs : AssignCreate(p)
    \/ \E p \in Procs : AssignUpdate(p)
    \/ \E p \in Procs : Return(p)

SpecReply == InitLifecycle /\ [][NextReply]_vars

-----------------------------------------------------------------------------
(* Specification: a poll cycle over two retrieved messages while a webhook *)
(* delivers one of them                                                    *)

PollBatches == {<<"m1", "m2">>, <<"m2", "m1">>, <<"m1">>}

PollWebhooks ==
    QueryData({"c1"}, {Undefined}, {ContentPlain}, {Undefined}, {Undefined},
              {Undefined}, {"m1"}, {FALSE})

NextPoll ==
    \/ \E p \in Procs : CallPoll(p, "c1", PollBatches)
    \/ \E p \in Procs : PollNext(p)
    \/ \E p \in Procs : CallProcessWebhook(p, PollWebhooks)
    \/ \E p \in Procs : ProcessLookup(p)
    \/ \E p \in Procs : CreateFindChannel(p)
    \/ \E p \in Procs : CreateAnalyze(p, IngestResponses)
    \/ \E p \in Procs : CreateCategory(p)
    \/ \E p \in Procs : CreateInsert(p)
    \/ \E p \in Procs : Return(p)

SpecPoll == Init /\ [][NextPoll]_vars

-----------------------------------------------------------------------------
(* Specification: process shutdown, signalled when no other call is in     *)
(* progress, after the channels were started; a step whose promise has     *)
(* settled is eventually run by the event loop                             *)

NextShutdown ==
    \/ \E p \in Procs : Quiet /\ CallStartAll(p)
    \/ \E p \in Procs : BatchNext(p)
    \/ \E p \in Procs : StartInit(p)
    \/ \E p \in Procs : StartFinish(p)
    \/ \E p \in Procs : StopFinish(p)
    \/ \E p \in Procs : StopHangs(p)
    \/ \E p \in Procs : Quiet /\ CallShutdown(p)
    \/ \E p \in Procs : Disconnect(p)
    \/ \E p \in Procs : Exit(p)

\* the continuations of a shutdown in progress
ShutdownStep(p) ==
    /\ op[p] = "gracefulShutdown"
    /\ BatchNext(p) \/ StopFinish(p) \/ Disconnect(p) \/ Exit(p)

SpecShutdown ==
    /\ InitFleet
    /\ [][NextShutdown]_vars
    /\ \A p \in Procs : WF_vars(ShutdownStep(p))

-----------------------------------------------------------------------------
(* Specification: assignments, public responses and manual status updates *)
(* interleaved on the one stored query                                    *)

StatusAssigns == AssignInputs({1}, UserIds)

StatusResponses == ResponseInputs({1}, {"u1"}, {FALSE})

StatusUpdates ==
    UpdateInputs({1}, UpdateData({Undefined}, {"IN_PROGRESS", "RESOLVED", "CLOSED"}))

NextStatus ==
    \/ \E p \in Procs : CallAssignQuery(p, StatusAssigns)
    \/ \E p \in Procs : AssignLoad(p)
    \/ \E p \in Procs : AssignFind(p)
    \/ \E p \in Procs : AssignCreate(p)
    \/ \E p \in Procs : AssignUpdate(p)
    \/ \E p \in Procs : CallCreateResponse(p, StatusResponses)
    \/ \E p \in Procs : RespondLoad(p)
    \/ \E p \in Procs : RespondCreate(p)
    \/ \E p \in Procs : RespondUpdate(p)
    \/ \E p \in Procs : CallUpdateQuery(p, StatusUpdates)
    \/ \E p \in Procs : UpdateLoad(p)
    \/ \E p \in Procs : UpdateWrite(p)
    \/ \E p \in Procs : Return(p)

SpecStatus == InitLifecycle /\ [][NextStatus]_vars

-----------------------------------------------------------------------------
(* Properties *)

\* the rows of one channel that carry one external key
RowsWithKey(channelId, externalId) ==
    {i \in DOMAIN queries :
        queries[i].channelId = channelId /\ queries[i].externalId = externalId}

Ingesting(p) == op[p] \in {"createQuery", "processMessage", "processWebhookMessage"}

\* caller p ends its operation in this step
Completes(p) == pc[p] # "done" /\ pc'[p] = "done"

\* caller p has come back from createQuery with a persisted row
Persisted(p) ==
    /\ pc[p] = "done"
    /\ Ingesting(p)
    /\ result[p].status = "returned"
    /\ result[p].id \in DOMAIN queries

UniqueViolation(p) ==
    /\ pc[p] = "done"
    /\ result[p].status = "thrown"
    /\ result[p].error = "P2002: Unique constraint failed on external_id"

\* the hours per priority the specification states
StatedHours == [CRITICAL |-> 1, HIGH |-> 4, MEDIUM |-> 24, LOW |-> 72]

hasUrgencyKeyword(content) ==
    \E keyword \in urgentKeywords : includes(toLowerCase(content), keyword)

\* C1: under every interleaving of createQuery calls, no two stored queries
\* have the same channel and the same non-null external key
C1_NoDuplicateExternalKey ==
    \A i, j \in DOMAIN queries :
        (/\ i # j
         /\ queries[i].externalId # Undefined
         /\ queries[i].channelId = queries[j].channelId)
        => queries[i].externalId # queries[j].externalId

\* two callers raced on one event: the one that looked the key up first and
\* found nothing lost at the insert, the other one persisted the row
C1_Witness ==
    \E p, q \in Procs :
        /\ p # q
        /\ Persisted(p)
        /\ op[q] = "processMessage"
        /\ UniqueViolation(q)
        /\ req[p].externalId = req[q].externalId
        /\ req[p].channelId = req[q].channelId

\* C2: an event fed to createQuery when its (channel, external key) is already
\* stored, or fed for the first time and persisted, leaves exactly one query
\* with that key, whatever the classifier answered
C2_IdempotentIngestion ==
    [][\A p \in Procs :
        (/\ Completes(p)
         /\ Ingesting(p)
         /\ req[p].externalId # Undefined
         /\ \/ RowsWithKey(req[p].channelId, req[p].externalId) # {}
            \/ result'[p].id \in DOMAIN queries')
        => Cardinality({i \in DOMAIN queries' :
                /\ queries'[i].channelId = req[p].channelId
                /\ queries'[i].externalId = req[p].externalId}) = 1]_vars

\* the second feeding of an event has ended, one row holds the key
C2_Witness ==
    \E p \in Procs :
        /\ op[p] = "createQuery"
        /\ UniqueViolation(p)
        /\ Cardinality(RowsWithKey(req[p].channelId, req[p].externalId)) = 1
        /\ \A q \in Procs \ {p} : pc[q] = "idle"

\* C3 (as stated): createQuery for a (channel, external key) that is already
\* stored returns the stored record and changes none of its fields
C3_ReturnsExistingUnmodified ==
    \A p \in Procs :
        (/\ pc[p] = "done"
         /\ op[p] = "createQuery"
         /\ req[p].externalId # Undefined
         /\ req[p].categoryId = Undefined
         /\ \E i \in RowsWithKey(req[p].channelId, req[p].externalId) :
                i # result[p].id)
        => /\ result[p].status = "returned"
           /\ result[p].id \in RowsWithKey(req[p].channelId, req[p].externalId)
           /\ queries = <<SeedQuery>>

\* C4 (as stated): without an explicit priority the persisted priority follows
\* VIP, then negative sentiment, then urgency keyword, else MEDIUM, for every
\* classifier outcome
C4_PriorityFromSignals ==
    \A p \in Procs :
        (Persisted(p) /\ req[p].priority = Undefined)
        => LET row == queries[result[p].id]
           IN  row.priority =
                 IF row.isVip THEN "HIGH"
                 ELSE IF row.sentiment = "NEGATIVE" THEN "HIGH"
                 ELSE IF hasUrgencyKeyword(row.content) THEN "HIGH"
                 ELSE "MEDIUM"

\* C5: an explicit priority is the persisted priority
C5_ExplicitPriorityWins ==
    \A p \in Procs :
        (Persisted(p) /\ req[p].priority # Undefined)
        => queries[result[p].id].priority = req[p].priority

\* an explicit LOW was persisted for a VIP sender with an urgency keyword whose
\* message the classifier had analysed
C5_Witness ==
    \E p \in Procs :
        /\ Persisted(p)
        /\ req[p].priority = "LOW"
        /\ req[p].content = ContentAsap
        /\ loc[p].mlCalled /\ ~loc[p].mlFailed /\ loc[p].mlUrgent
        /\ queries[result[p].id].isVip
        /\ queries[result[p].id].priority = "LOW"

\* createQuery for an existing channel and a new key, with no explicit value
\* and no urgency keyword, whose classification call failed
C6_Case(p) ==
    /\ pc[p] = "done"
    /\ op[p] = "createQuery"
    /\ req[p].channelId \in ChannelIds
    /\ loc[p].mlFailed
    /\ req[p].sentiment = Undefined
    /\ req[p].priority = Undefined
    /\ req[p].isVip = Undefined
    /\ req[p].categoryId = Undefined
    /\ ~hasUrgencyKeyword(req[p].content)
    /\ \A i \in DOMAIN queries :
            queries[i].externalId = req[p].externalId => i = result[p].id

\* C6: when the classification call fails, createQuery still persists the
\* query and does not raise; the query is NEUTRAL, MEDIUM and not VIP
C6_ClassifierFallback ==
    \A p \in Procs :
        C6_Case(p)
        => /\ result[p].status = "returned"
           /\ result[p].id \in DOMAIN queries
           /\ queries[result[p].id].sentiment = "NEUTRAL"
           /\ queries[result[p].id].priority = "MEDIUM"
           /\ ~queries[result[p].id].isVip

C6_Witness ==
    \E p \in Procs :
        /\ C6_Case(p)
        /\ Persisted(p)
        /\ req[p].externalId = "m2"
        /\ Len(queries) = 2

AssignmentRow(p) == [queryId |-> req[p].queryId, userId |-> req[p].userId]

AssignDone(p) == pc[p] = "done" /\ op[p] = "assignQuery"

DuplicateReported(p) ==
    /\ result[p].status = "thrown"
    /\ result[p].error \in
        {"ValidationError: Query is already assigned to this user",
         "P2002: Unique constraint failed on (query_id, user_id)"}

\* C9: of the assignQuery calls for one (query, user), sequential or
\* interleaved, one succeeds, every other ends with an error, and one
\* Assignment row exists for the pair
C9_AssignedOnce ==
    /\ \A a \in BagToSet(assignments) : CopiesIn(a, assignments) = 1
    /\ \A p \in Procs :
        (AssignDone(p) /\ (result[p].status = "returned" \/ DuplicateReported(p)))
        => CopiesIn(AssignmentRow(p), assignments) = 1
    /\ \A p, q \in Procs :
        (p # q /\ AssignDone(p) /\ AssignDone(q) /\ AssignmentRow(p) = AssignmentRow(q))
        => ~(result[p].status = "returned" /\ result[q].status = "returned")

\* two interleaved calls for one pair: both passed the findFirst check, one
\* created the row, the other was stopped by the unique index
C9_Witness ==
    \E p, q \in Procs :
        /\ p # q
        /\ AssignDone(p) /\ AssignDone(q)
        /\ AssignmentRow(p) = AssignmentRow(q)
        /\ result[p].status = "returned"
        /\ result[q].error = "P2002: Unique constraint failed on (query_id, user_id)"

Acts(p) == pc[p] \notin {"idle", "done"} /\ pc'[p] # pc[p]

RespondDone(p) ==
    /\ pc[p] = "done"
    /\ op[p] = "createResponse"
    /\ result[p].status = "returned"

C12_InternalNoteKeepsStatus ==
    [][\A p \in Procs :
        (/\ op[p] = "createResponse"
         /\ Acts(p)
         /\ req[p].isInternal
         /\ req[p].queryId \in DOMAIN queries)
        => queries'[req[p].queryId].status = queries[req[p].queryId].status]_vars

\* C13: a query persisted by createQuery has status NEW when it is created,
\* whatever the request carries (a status included) and whatever the
\* classifier answered
C13_CreatedAsNew ==
    [][\A p \in Procs :
        (/\ op[p] = "createQuery"
         /\ Completes(p)
         /\ result'[p].status = "returned")
        => /\ Len(queries') = Len(queries) + 1
           /\ result'[p].id = Len(queries')
           /\ queries'[result'[p].id].status = "NEW"]_vars

\* a request that carried the status CLOSED was persisted as NEW
C13_Witness ==
    \E p \in Procs :
        /\ Persisted(p)
        /\ req[p].status = "CLOSED"
        /\ loc[p].mlCalled /\ ~loc[p].mlFailed
        /\ queries[result[p].id].status = "NEW"

\* C14: createQuery for a channel id that does not exist ends at the channel
\* lookup with an error, and the stored queries are unchanged
C14_UnknownChannelRejected ==
    [][\A p \in Procs :
        (/\ op[p] = "createQuery"
         /\ Acts(p)
         /\ req[p].channelId \notin ChannelIds)
        => /\ pc'[p] = "done"
           /\ result'[p].status = "thrown"
           /\ queries' = queries]_vars

C14_Witness ==
    \E p \in Procs :
        /\ pc[p] = "done"
        /\ op[p] = "createQuery"
        /\ req[p].channelId = "c9"
        /\ result[p] = Thrown("ValidationError: Channel not found")
        /\ queries = <<SeedQuery>>

\* a connector that is running or has an armed poll timer
Live(i) == instances[i].isActive \/ instances[i].timers > 0

EntryOf(registry, channelId) ==
    IF channelId \in DOMAIN registry THEN registry[channelId] ELSE 0

\* caller p ends the supervisor operation in this step
Ends(p, operation) ==
    /\ pc[p] # "done"
    /\ pc'[p] = "done"
    /\ op'[p] = operation

Unsupported(channelId) ==
    /\ channelId \in DOMAIN channels
    /\ \/ ~channels[channelId].isActive
       \/ channels[channelId].type \notin ConnectorTypes

\* C15 (as stated): every live connector is the instance registered for its
\* channel id, so each channel id has at most one live connector
C15_LiveIsRegistered ==
    \A i \in DOMAIN instances :
        Live(i) => EntryOf(integrations, instances[i].channelId) = i

\* C16 (as stated): startChannel on a channel whose flag is false or whose
\* type has no connector, decided at the call or at the channel lookup, fails
\* and leaves the registry without an entry for the channel
C16_UnsupportedStartFails ==
    [][\A p \in Procs :
        (/\ Ends(p, "startChannel")
         /\ pc[p] \in {"idle", "sc_init"}
         /\ Unsupported(req'[p].channelId))
        => /\ result'[p].status = "thrown"
           /\ EntryOf(integrations', req'[p].channelId) = 0]_vars

\* C16 (amended): startChannel that found no registered instance and then
\* reads a channel whose flag is false or whose type has no connector fails
\* and constructs and registers nothing
C16_UnsupportedNotConstructed ==
    [][\A p \in Procs :
        (/\ op[p] = "startChannel"
         /\ pc[p] = "sc_init"
         /\ Acts(p)
         /\ Unsupported(req[p].channelId))
        => /\ pc'[p] = "done"
           /\ result'[p].status = "thrown"
           /\ integrations' = integrations
           /\ instances' = instances]_vars

\* startChannel failed on the deactivated channel c1, which has no entry
C16_Witness ==
    \E p \in Procs :
        /\ pc[p] = "done"
        /\ op[p] = "startChannel"
        /\ req[p].channelId = "c1"
        /\ ~channels["c1"].isActive
        /\ result[p] = Thrown("Error: Failed to initialize integration")
        /\ integrations["c1"] = 0

\* C17 (as stated): when stopChannel returns or raises, the registry has no
\* entry for the channel id
C17_StopRemovesEntry ==
    [][\A p \in Procs :
        Ends(p, "stopChannel")
        => EntryOf(integrations', req'[p].channelId) = 0]_vars

\* C18 (as stated): when the start of reloadChannel fails after its stop
\* succeeded, the registry holds no instance for the channel id
C18_ReloadFailStopped ==
    [][\A p \in Procs :
        (/\ Ends(p, "reloadChannel")
         /\ pc[p] \in {"sc_init", "sc_starting"}
         /\ result'[p].status = "thrown")
        => EntryOf(integrations', req'[p].channelId) = 0]_vars

\* C19: testChannelConnection on a channel that has no entry, or only the
\* entry of the connector under test, returns with no entry for the channel,
\* whatever the test found; no step of it arms a timer or sets a connector
\* running
C19_TestLeavesNothing ==
    [][\A p \in Procs :
        /\ (/\ Ends(p, "testChannelConnection")
            /\ EntryOf(integrations, req'[p].channelId) \in {0, loc[p].inst})
            => /\ result'[p].status = "returned"
               /\ EntryOf(integrations', req'[p].channelId) = 0
        /\ (op[p] = "testChannelConnection" /\ Acts(p))
            => \A i \in DOMAIN instances' :
                /\ instances'[i].timers = 0 \/ i \in DOMAIN instances
                /\ i \in DOMAIN instances
                    => /\ instances'[i].timers <= instances[i].timers
                       /\ instances'[i].isActive => instances[i].isActive
                /\ i \notin DOMAIN instances => ~instances'[i].isActive]_vars

\* a successful test has returned: a connector was built, nothing is registered
\* and nothing is live
C19_Witness ==
    \E p \in Procs :
        /\ pc[p] = "done"
        /\ op[p] = "testChannelConnection"
        /\ result[p] = TestResult(TRUE)
        /\ loc[p].inst = 1
        /\ integrations["c1"] = 0
        /\ \A i \in DOMAIN instances : ~Live(i)

SecretValues == {"s1", "s2", "other"}

\* the connector with every configuration value replaced by v
WithValues(integration, v) ==
    [integration EXCEPT
        !.configuration = [k \in DOMAIN integration.configuration |-> v]]

\* C20: the output of status() is the same for a registry that differs only in
\* configuration values: it is made of each registered connector's channel id,
\* running flag, last poll time and configuration key names
C20_StatusHidesValues ==
    [][\A p \in Procs :
        (pc[p] = "idle" /\ op'[p] = "getStatus")
        => /\ \A v \in SecretValues :
                loc'[p].output =
                    {getStatus(WithValues(instances[integrations[c]], v)) :
                        c \in Registered}
           /\ loc'[p].output =
                {[channelId |-> c,
                  isActive |-> instances[integrations[c]].isActive,
                  lastPollTime |-> instances[integrations[c]].lastPollTime,
                  configuration |-> DOMAIN instances[integrations[c]].configuration] :
                    c \in Registered}]_vars

\* status() reported a running connector whose configuration holds the secret s2
C20_Witness ==
    \E p \in Procs :
        /\ pc[p] = "done"
        /\ op[p] = "getStatus"
        /\ \E st \in loc[p].output :
            /\ st.isActive
            /\ st.configuration = {"host", "password", "signingSecret"}
            /\ integrations[st.channelId] # 0
            /\ instances[integrations[st.channelId]].configuration.password = "s2"

-----------------------------------------------------------------------------
(* Connector supervisor batches, connector lifecycle, replies, poll cycles *)

\* C28 (as stated): every stored query whose priority is HIGH or CRITICAL has
\* isUrgent = true, after any sequence of createQuery and updateQuery
C28_UrgentWhenHighPriority ==
    \A i \in DOMAIN queries :
        queries[i].priority \in {"HIGH", "CRITICAL"} => queries[i].isUrgent

\* C22 (as stated): whatever start() calls were issued on a connector, one
\* after the other or one while another is in progress, the connector has at
\* most one armed recurring poll timer
C22_AtMostOneTimer ==
    \A i \in DOMAIN instances : instances[i].timers <= 1

\* caller p ends the connector stop() it awaits
StopEnds(p) == pc[p] \in {"st_stopping", "tc_stop"} /\ Acts(p)

\* the stop() caller p awaits raises: stopChannel rethrows it, and
\* testChannelConnection swallows it, the session not having been dropped
StopRaises(p) ==
    \/ /\ pc[p] = "st_stopping"
       /\ pc'[p] = "done"
       /\ result'[p] = Thrown("Error: stop failed")
    \/ /\ pc[p] = "tc_stop"
       /\ loc[p].closing
       /\ instances'[loc[p].inst].session

\* C23 (as stated): a stop() issued on a connector on which start() was never
\* called, or on which the last call was a stop(), completes without raising
\* and leaves the connector not running with no armed timer
C23_StopIsSafe ==
    [][\A p \in Procs :
        (StopEnds(p) /\ ~loc[p].prior)
        => /\ ~StopRaises(p)
           /\ ~instances'[loc[p].inst].isActive
           /\ instances'[loc[p].inst].timers = 0]_vars

\* C24: the testConnection() awaited by testChannelConnection ends by
\* returning a result with a success flag and never raises, whatever the
\* configuration and the outcome of the external call; it arms no timer and
\* does not set the connector running
C24_TestNeverRaises ==
    [][\A p \in Procs :
        (pc[p] = "tc_test" /\ Acts(p))
        => /\ ~loc'[p].raised
           /\ pc'[p] = "tc_stop"
           /\ loc'[p].ok \in BOOLEAN
           /\ instances'[loc[p].inst].timers <= instances[loc[p].inst].timers
           /\ instances'[loc[p].inst].isActive => instances[loc[p].inst].isActive]_vars

\* testConnection() returned a failure for a mailbox whose configuration has
\* no password
C24_Witness ==
    \E p \in Procs :
        /\ pc[p] = "tc_stop"
        /\ op[p] = "testChannelConnection"
        /\ ~configured(instances[loc[p].inst].configuration)
        /\ ~loc[p].ok
        /\ ~loc[p].raised
        /\ ~Live(loc[p].inst)

Range(s) == {s[k] : k \in DOMAIN s}

\* C21: when startAllActiveChannels or stopAll ends, it returns, and
\* startChannel / stopChannel was called for every channel of the list it
\* iterates (the active channels, the registered channels), whichever of
\* these calls failed
C21_BatchAttemptsAll ==
    [][\A p \in Procs :
        (pc[p] # "done" /\ pc'[p] = "done" /\ op'[p] \in BatchOps)
        => /\ result'[p].status = "returned"
           /\ Range(req'[p].attempted) = Range(req'[p].all)
           /\ Len(req'[p].attempted) = Len(req'[p].all)]_vars

\* it returned after the call for its first channel failed and the call for
\* its second channel was made
ReturnedDespiteFailure(p, operation) ==
    /\ pc[p] = "done"
    /\ op[p] = operation
    /\ Len(req[p].all) = 2
    /\ req[p].all[1] \in req[p].failed
    /\ req[p].attempted = req[p].all
    /\ result[p].status = "returned"

C21_Witness ==
    \E p, q \in Procs :
        /\ ReturnedDespiteFailure(p, "startAllActiveChannels")
        /\ ReturnedDespiteFailure(q, "stopAll")

\* C25 (as stated): a sendResponse whose protocol call succeeded for a query
\* of the connector's channel does not end before it has persisted one
\* non-internal Response for that query; a sendResponse for a query of
\* another channel or for no query fails without the protocol call and
\* without persisting a Response
C25_ReplyPersisted ==
    [][\A p \in Procs :
        (op[p] = "sendResponse" /\ Acts(p))
        => /\ (pc'[p] = "done" /\ loc'[p].posted)
              => /\ pc[p] = "sr_create"
                 /\ result'[p].status = "returned"
                 /\ \E r \in BagToSet(responses') :
                        /\ r.queryId = req[p].queryId
                        /\ ~r.isInternal
                        /\ CopiesIn(r, responses') = CopiesIn(r, responses) + 1
           /\ (\/ req[p].queryId \notin DOMAIN queries
               \/ queries[req[p].queryId].channelId # req[p].channelId)
              => /\ pc'[p] = "done"
                 /\ result'[p].status = "thrown"
                 /\ ~loc'[p].posted
                 /\ responses' = responses]_vars

\* caller p, a connector, takes the first step on the event it observed
Observes(p) ==
    /\ Acts(p)
    /\ \/ op[p] = "processMessage" /\ pc[p] = "pm_lookup"
       \/ op[p] = "processWebhookMessage" /\ pc[p] = "cq_findChannel"

\* C26 (as stated): a connector that observes, on the poll path or on the
\* webhook path, an event whose external key already has a query drops it at
\* once: it returns without an error, before any classification call, and no
\* query is created or changed
C26_DuplicateDropped ==
    [][\A p \in Procs :
        (Observes(p) /\ findByExternalId(req[p].externalId) # {})
        => /\ pc'[p] = "done"
           /\ result'[p].status = "returned"
           /\ queries' = queries]_vars

\* C27 (as stated): when a poll cycle ends, every message it retrieved has
\* been handed to processMessage, whether or not the processing of another
\* message failed
C27_PollProcessesAll ==
    [][\A p \in Procs :
        (pc[p] = "poll_next" /\ pc'[p] = "done")
        => req'[p].attempted = req'[p].all]_vars

\* C29 (as stated): once gracefulShutdown has begun, the process exits, even
\* when the stop() of a connector never returns
C29_ShutdownTerminates ==
    (\E p \in Procs : op[p] = "gracefulShutdown") ~> ~Running

\* the order NEW < ASSIGNED < IN_PROGRESS < RESOLVED < CLOSED
StatusRank(status) ==
    CASE status = "NEW" -> 1
      [] status = "ASSIGNED" -> 2
      [] status = "IN_PROGRESS" -> 3
      [] status = "RESOLVED" -> 4
      [] status = "CLOSED" -> 5

\* C30 (as stated): under any interleaving of assignQuery, createResponse and
\* manual status updates on one query, the status writes of assignQuery and
\* createResponse never move the query's status backward
C30_AutomaticNeverBackward ==
    [][\A p \in Procs :
        (pc[p] \in {"aq_update", "cr_update"} /\ Acts(p))
        => StatusRank(queries'[req[p].queryId].status)
            >= StatusRank(queries[req[p].queryId].status)]_vars

-----------------------------------------------------------------------------
(* Concurrent updates, poll timers, channel scope, tests on a live connector *)

\* an updateQuery call on query i is between its read and its write
Updating(i) ==
    \E p \in Procs :
        /\ op[p] = "updateQuery"
        /\ pc[p] \in {"uq_load", "uq_update"}
        /\ req[p].queryId = i

\* C31 (as stated): once every updateQuery call on a query has completed, the
\* stored slaDueAt is the deadline of the stored priority, the time of a
\* priority change plus the hours of that priority, under any interleaving
C31_DeadlinePairsPriority ==
    \A i \in DOMAIN queries :
        ~Updating(i)
        => \E t \in 0..MaxTime :
            queries[i].slaDueAt = t + StatedHours[queries[i].priority] * MsPerHour

\* a caller awaits a stop() of connector i
StopPending(i) ==
    \E p \in Procs :
        /\ pc[p] \in {"st_stopping", "tc_stop", "st_hung"}
        /\ loc[p].inst = i

\* C32 (as stated): a connector whose last lifecycle call is a stop() that has
\* returned (its session, if it had one, is dropped) has no armed poll timer
\* and is not running, also when that stop() was called while a start() of
\* the connector was in progress
C32_StoppedStaysStopped ==
    \A i \in DOMAIN instances :
        (/\ ~instances[i].afterStart
         /\ ~instances[i].session
         /\ ~StopPending(i))
        => ~Live(i)

\* caller p is a poll cycle that has not ended
Polling(p) == op[p] = "pollMessages" /\ pc[p] \notin {"idle", "done"}

\* C33 (as stated): two poll cycles of one channel never run at the same
\* time; a tick of the timer during a cycle does not start a second one
C33_OneCycleAtATime ==
    \A p, q \in Procs :
        (p # q /\ Polling(p) /\ Polling(q)) => req[p].channelId # req[q].channelId

-----------------------------------------------------------------------------
(* Specification: poll cycles of the started connector of channel c1, a     *)
(* mailbox, a Slack workspace polled by timer or a Facebook page, while a   *)
(* webhook delivers one of the messages                                     *)

PolledChannels ==
    {[type |-> "EMAIL", isActive |-> TRUE,
      configuration |-> [host |-> "h", password |-> "s1"]],
     [type |-> "SLACK", isActive |-> TRUE,
      configuration |-> [host |-> "h", password |-> "s2"]],
     [type |-> "FACEBOOK", isActive |-> TRUE,
      configuration |-> [host |-> "h", password |-> "s3"]]}

InitPass ==
    /\ now = 0
    /\ queries = <<>>
    /\ assignments = EmptyBag
    /\ responses = EmptyBag
    /\ \E stored \in PolledChannels :
        /\ channels = [c \in ChannelIds |-> stored]
        /\ instances = <<called(started(NewIntegration("c1", stored), 0), "start")>>
    /\ integrations = [c \in ChannelIds |-> IF c = "c1" THEN 1 ELSE 0]
    /\ Idle

SpecPass == InitPass /\ [][NextPoll]_vars

\* C34 (as stated): every poll pass of a connector that ends, whether all its
\* messages were processed or the processing of one failed, leaves
\* lastPollTime at the time the pass ended
C34_PassStampsTime ==
    [][\A p \in Procs :
        (pc[p] = "poll_next" /\ pc'[p] = "done")
        => instances'[integrations[req[p].channelId]].lastPollTime = <<now'>>]_vars

\* C35 (as stated): an event is discarded only when a query with its external
\* key exists in its own channel; an event whose key is held by a query of
\* another channel is ingested, so that a connector that has processed an
\* event leaves a query with that key in the event's channel
C35_DedupWithinChannel ==
    \A p \in Procs :
        (/\ pc[p] = "done"
         /\ op[p] = "processMessage"
         /\ req[p].externalId # Undefined)
        => \E i \in DOMAIN queries :
            /\ queries[i].channelId = req[p].channelId
            /\ queries[i].externalId = req[p].externalId

\* C36 (as stated): no step of a testChannelConnection call on a channel
\* replaces, removes or stops the running connector registered for the
\* channel: the test works on an instance of its own
C36_TestKeepsLiveConnector ==
    [][\A p \in Procs :
        (op[p] = "testChannelConnection" /\ Acts(p))
        => LET i == EntryOf(integrations, req[p].channelId)
           IN  (i # 0 /\ instances[i].isActive)
               => /\ EntryOf(integrations', req[p].channelId) = i
                  /\ instances'[i].isActive]_vars

-----------------------------------------------------------------------------
(* Specification: startChannel and stopChannel on channel c1 while its      *)
(* persisted configuration is edited between the calls                      *)

\* channelService.updateChannel(channelId, { configuration })
UpdateConfiguration(c, configurations) ==
    /\ c \in DOMAIN channels
    /\ \E configuration \in configurations :
        /\ channels[c].configuration # configuration
        /\ channels' = [channels EXCEPT ![c].configuration = configuration]
    /\ UNCHANGED <<now, queries, assignments, responses, integrations, instances,
                   pc, op, req, loc, result>>

EditedConfigurations ==
    {[host |-> "h", password |-> "s1"], [host |-> "h2", password |-> "s3"]}

NextEdit ==
    \/ \E p \in Procs : CallStartChannel(p, StartedChannels)
    \/ \E p \in Procs : StartInit(p)
    \/ \E p \in Procs : StartFinish(p)
    \/ \E p \in Procs : CallStopChannel(p, StartedChannels)
    \/ \E p \in Procs : StopFinish(p)
    \/ Quiet /\ UpdateConfiguration("c1", EditedConfigurations)
    \/ \E p \in Procs : Return(p)

SpecEdit == InitSupervisor /\ [][NextEdit]_vars

\* C37 (as stated): when the start() that startChannel awaited succeeds, the
\* connector now running was constructed from the type and the configuration
\* the channel has in the store during the call, also after an earlier
\* startChannel failed and the configuration was edited (the store is not
\* edited while a call runs)
C37_StartUsesStoredConfiguration ==
    [][\A p \in Procs :
        (/\ pc[p] = "sc_starting"
         /\ Ends(p, "startChannel")
         /\ result'[p].status = "returned")
        => LET integration == instances'[result'[p].id]
               channel == channels'[req'[p].channelId]
           IN  /\ integration.type = channel.type
               /\ integration.configuration = channel.configuration]_vars

-----------------------------------------------------------------------------
(* Specification: assignQuery and createResponse on the stored query when   *)
(* the store can reject the status update that follows the insert           *)

\* await prisma.query.update rejects (the connection is lost, the statement
\* times out): the catch of assignQuery / createResponse logs and rethrows
UpdateRejected(p) ==
    /\ pc[p] \in {"aq_update", "cr_update"}
    /\ Finish(p, Thrown("PrismaClientKnownRequestError: query.update failed"))
    /\ UNCHANGED <<now, queries, assignments, responses, supervisorVars, op, req,
                   loc>>

NextAtomic ==
    \/ \E p \in Procs : CallAssignQuery(p, LifecycleAssigns)
    \/ \E p \in Procs : AssignLoad(p)
    \/ \E p \in Procs : AssignFind(p)
    \/ \E p \in Procs : AssignCreate(p)
    \/ \E p \in Procs : AssignUpdate(p)
    \/ \E p \in Procs : CallCreateResponse(p, RespondInputs)
    \/ \E p \in Procs : RespondLoad(p)
    \/ \E p \in Procs : RespondCreate(p)
    \/ \E p \in Procs : RespondUpdate(p)
    \/ \E p \in Procs : UpdateRejected(p)
    \/ \E p \in Procs : Return(p)

SpecAtomic == InitLifecycle /\ [][NextAtomic]_vars

\* the row the assignQuery / createResponse call of p has inserted is stored
Inserted(p) ==
    \/ pc[p] = "aq_update" /\ BagIn(AssignmentRow(p), assignments)
    \/ pc[p] = "cr_update" /\ BagIn(req[p], responses)

\* C38 (as stated): an assignQuery or createResponse call that ends with an
\* error has added no Assignment or Response row and has not changed the
\* status or assignedAt of the query
C38_ErrorLeavesNothing ==
    [][\A p \in Procs :
        (/\ op[p] \in {"assignQuery", "createResponse"}
         /\ Completes(p)
         /\ result'[p].status = "thrown")
        => /\ ~Inserted(p)
           /\ queries' = queries]_vars

-----------------------------------------------------------------------------
(* EmailIntegration.pollEmails / processEmail *)

\* messages of the mailbox that stay UNSEEN and are fetched in every cycle:
\* one with a Message-ID header, one without
Mails == {[uid |-> 7, messageId |-> "m1"], [uid |-> 8, messageId |-> Undefined]}

\* the template literal `email-${email.uid}`
uidKey(uid) ==
    CASE uid = 7 -> "email-7"
      [] uid = 8 -> "email-8"
      [] OTHER -> "email-undefined"

\* emailData.headers when processEmail reads it: {} until the handler of the
\* body stream's 'end' has awaited simpleParser (lines 166-177), which nothing
\* orders before the 'end' of the message (185) or of the fetch (195)
headers(mail, parsed) ==
    IF parsed THEN [messageId |-> mail.messageId, from |-> "a@b"]
    ELSE [messageId |-> Undefined, from |-> Undefined]

\* line 216: email.headers.messageId || `email-${email.uid}`
dedupKey(mail, parsed) ==
    IF headers(mail, parsed).messageId # Undefined
    THEN headers(mail, parsed).messageId
    ELSE uidKey(mail.uid)

\* this.processedMessageIds: the external ids of the channel's queries as
\* loaded by initialize() (57-71), plus the id of every query this connector
\* created (line 251, in the continuation of createQuery)
processedMessageIds(channelId) ==
    {queries[i].externalId : i \in {j \in DOMAIN queries :
                                        queries[j].channelId = channelId}}

\* the arguments of createQuery in processEmail, with the message they are for
EmailItem(channelId, mail, parsed) ==
    [channelId |-> channelId, categoryId |-> Undefined, content |-> ContentPlain,
     sentiment |-> Undefined, priority |-> Undefined, isVip |-> Undefined,
     externalId |-> dedupKey(mail, parsed), skipMLAnalysis |-> FALSE,
     status |-> Undefined, mail |-> mail, parsed |-> parsed]

\* the 'end' handler of a fetch calls processEmail(email), lines 214-243 up to
\* the await of createQuery: the key, the test of processedMessageIds, then
\* email.headers.from.match, a TypeError when the headers are not parsed yet
CallProcessEmail(p, channelId, mails) ==
    /\ pc[p] = "idle"
    /\ RoomForQuery
    /\ op' = [op EXCEPT ![p] = "processEmail"]
    /\ \E mail \in mails, parsed \in BOOLEAN :
        /\ req' = [req EXCEPT ![p] = EmailItem(channelId, mail, parsed)]
        /\ IF dedupKey(mail, parsed) \in processedMessageIds(channelId)
           THEN Finish(p, Returned(0))
           ELSE IF headers(mail, parsed).from = Undefined
           THEN Finish(p, Thrown("TypeError: Cannot read properties of undefined"))
           ELSE Goto(p, "cq_findChannel")
    /\ UNCHANGED <<now, queries, assignments, loc>>
    /\ UNCHANGED <<responses, supervisorVars>>

-----------------------------------------------------------------------------
(* Specification: the poll cycles of the mailbox of channel c1, each        *)
(* processing a message whose body is parsed or not yet                     *)

NextMail ==
    \/ \E p \in Procs : CallProcessEmail(p, "c1", Mails)
    \/ \E p \in Procs : CreateFindChannel(p)
    \/ \E p \in Procs : CreateAnalyze(p, IngestResponses)
    \/ \E p \in Procs : CreateCategory(p)
    \/ \E p \in Procs : CreateInsert(p)
    \/ \E p \in Procs : Return(p)

SpecMail == Init /\ [][NextMail]_vars

\* the queries created for a message of the mailbox
QueriesOf(mail) ==
    {i \in DOMAIN queries :
        queries[i].externalId \in {dedupKey(mail, TRUE), dedupKey(mail, FALSE)}}

\* C39 (as stated): in every poll cycle and for every ordering of the parse
\* of the body and the 'end' callbacks, processEmail derives for a message the
\* key it derives once the message is parsed, and no message of the mailbox
\* has two queries
C39_SameKeyEveryCycle ==
    /\ \A p \in Procs :
        op[p] = "processEmail" => req[p].externalId = dedupKey(req[p].mail, TRUE)
    /\ \A mail \in Mails : Cardinality(QueriesOf(mail)) <= 1

\* C40 (as stated): once assignedAt of a query is set, no step of an
\* assignQuery call, later or concurrent, changes it
C40_AssignedAtStampedOnce ==
    [][\A p \in Procs :
        (/\ op[p] = "assignQuery"
         /\ Acts(p)
         /\ req[p].queryId \in DOMAIN queries
         /\ queries[req[p].queryId].assignedAt # NullTime)
        => queries'[req[p].queryId].assignedAt = queries[req[p].queryId].assignedAt]_vars

====
